---- MODULE Spec2Model ----
(***************************************************************************)
(* Clean Tech Radar: the browser client (static/radar.js).                 *)
(*                                                                         *)
(* Numbers.  The client computes with IEEE doubles; the model computes     *)
(* with exact rationals [n, d] in lowest terms (d > 0), so rounding error  *)
(* is outside the model.  Angles are kept as rational multiples of pi      *)
(* (PI is the rational 1): every angle the layout computes is one.  A      *)
(* point (cos(a) * r, sin(a) * r) is kept in its polar form [r, a]; the    *)
(* origin (0, 0) is the point of radius 0.                                 *)
(***************************************************************************)
EXTENDS Integers, Sequences, FiniteSets, TLC

(***************************************************************************)
(* Exact rational arithmetic                                               *)
(***************************************************************************)
Abs(x) == IF x < 0 THEN -x ELSE x

RECURSIVE GCD(_, _)
GCD(a, b) == IF b = 0 THEN a ELSE GCD(b, a % b)

Rat(n, d) ==
    LET s == IF d < 0 THEN -1 ELSE 1
        g == GCD(Abs(n), Abs(d))
    IN  [n |-> (s * n) \div g, d |-> (s * d) \div g]

Int2Rat(k) == [n |-> k, d |-> 1]

RAdd(p, q) == Rat(p.n * q.d + q.n * p.d, p.d * q.d)
RSub(p, q) == Rat(p.n * q.d - q.n * p.d, p.d * q.d)
RMul(p, q) == Rat(p.n * q.n, p.d * q.d)
RDiv(p, q) == Rat(p.n * q.d, p.d * q.n)
RLt(p, q)  == p.n * q.d < q.n * p.d
RLe(p, q)  == p.n * q.d <= q.n * p.d
RMin(p, q) == IF RLt(q, p) THEN q ELSE p

Zero == Int2Rat(0)
PI   == Int2Rat(1)

(***************************************************************************)
(* Constants and configuration (radar.js, lines 5-53)                      *)
(***************************************************************************)
RINGS == <<"Not Recommended", "In Discovery", "Adopted">>
QUADRANTS == <<"Platforms", "Tools", "Programming Languages & Frameworks", "Techniques">>

margin == 0
ringLabelYOffset == 15
simulationTicks == 200
ringLabelExclusionRadius == 40
resizeDebounceDelay == 250

\* JavaScript's null where a string is expected ('' is the empty string).
NullStr == "<null>"

THEMES == <<"system", "light", "dark">>

\* Array.prototype.indexOf, 0-based, -1 when absent.
RECURSIVE IndexFrom(_, _, _)
IndexFrom(arr, v, k) ==
    IF k > Len(arr) THEN -1
    ELSE IF arr[k] = v THEN k - 1
    ELSE IndexFrom(arr, v, k + 1)

indexOf(arr, v) == IndexFrom(arr, v, 1)

\* Array.prototype.filter is SelectSeq: the subsequence of the elements that
\* satisfy the test.

(***************************************************************************)
(* Values of an id: `node-${index}` for a placed node, the bare index for  *)
(* a staged invalid one, undefined for an item of radarData, null.         *)
(***************************************************************************)
NodeId(index) == [tag |-> "node-", n |-> index]
RawId(index)  == [tag |-> "index", n |-> index]
Undefined     == [tag |-> "undefined", n |-> 0]
Null          == [tag |-> "null", n |-> 0]

(***************************************************************************)
(* Geometry                                                                *)
(***************************************************************************)
\* Math.min(width, height) / 2 - LAYOUT.margin
Radius(width, height) ==
    RSub(RDiv(RMin(Int2Rat(width), Int2Rat(height)), Int2Rat(2)), Int2Rat(margin))

\* d3.scaleLinear().domain([0, RINGS.length]).range([0, radius])
radiusScale(radius, v) ==
    RAdd(Zero, RMul(RDiv(Int2Rat(v - 0), Int2Rat(Len(RINGS) - 0)), RSub(radius, Zero)))

\* (Math.PI * 2) / QUADRANTS.length
angleSlice == RDiv(RMul(PI, Int2Rat(2)), Int2Rat(Len(QUADRANTS)))

\* The point (Math.cos(a) * r, Math.sin(a) * r).
Polar(r, a) == IF r = Zero THEN [r |-> Zero, a |-> Zero] ELSE [r |-> r, a |-> a]

Origin == Polar(Zero, Zero)

(***************************************************************************)
(* prepareNodesForSimulation (radar.js, lines 482-513)                     *)
(***************************************************************************)
\* Mutant of TargetRadius: the band's outer edge instead of its midpoint.
TargetRadiusOuterEdge(radius, ringIndex) ==
    radiusScale(radius, Len(RINGS) - ringIndex)

\* The ring band's midpoint, lines 491-493.
TargetRadius(radius, ringIndex) ==
    LET ringIndexForScaleOuter == Len(RINGS) - ringIndex
        ringIndexForScaleInner == Len(RINGS) - (ringIndex + 1)
    IN  RDiv(RAdd(radiusScale(radius, ringIndexForScaleOuter),
                  radiusScale(radius, ringIndexForScaleInner)), Int2Rat(2))

\* Mutant of TargetAngle: the items are spread over the whole slice, with no margin.
TargetAngleNoMargin(quadrantIndex, index, length) ==
    RAdd(RSub(RMul(Int2Rat(quadrantIndex), angleSlice), RDiv(PI, Int2Rat(2))),
         RMul(RDiv(Int2Rat(index), Int2Rat(length)), angleSlice))

\* The target angle, lines 495-497; index is the 0-based index in data.
TargetAngle(quadrantIndex, index, length) ==
    LET baseAngle   == RSub(RMul(Int2Rat(quadrantIndex), angleSlice), RDiv(PI, Int2Rat(2)))
        angleOffset == RAdd(RMul(angleSlice, Rat(1, 10)),
                            RMul(RDiv(Int2Rat(index), Int2Rat(length)),
                                 RMul(angleSlice, Rat(8, 10))))
    IN  RAdd(baseAngle, angleOffset)

\* Mutant of StageNode: only the quadrant is tested for validity.
StageNodeQuadrantOnly(item, index, length, radius) ==
    LET ringIndex     == indexOf(RINGS, item.ring)
        quadrantIndex == indexOf(QUADRANTS, item.quadrant)
    IN  IF quadrantIndex = -1
        THEN [label |-> item.label, quadrant |-> item.quadrant, ring |-> item.ring,
              id |-> RawId(index), pos |-> Origin, target |-> Origin,
              targetRadius |-> Zero, valid |-> FALSE]
        ELSE [label |-> item.label, quadrant |-> item.quadrant, ring |-> item.ring,
              id |-> NodeId(index),
              pos |-> Polar(TargetRadius(radius, ringIndex),
                            TargetAngle(quadrantIndex, index, length)),
              target |-> Polar(TargetRadius(radius, ringIndex),
                               TargetAngle(quadrantIndex, index, length)),
              targetRadius |-> TargetRadius(radius, ringIndex), valid |-> TRUE]

\* The callback of data.map, lines 483-511.
StageNode(item, index, length, radius) ==
    LET ringIndex     == indexOf(RINGS, item.ring)
        quadrantIndex == indexOf(QUADRANTS, item.quadrant)
    IN  IF ringIndex = -1 \/ quadrantIndex = -1
        THEN \* staged at the centre; the node has no targetRadius (kept as 0)
             [label |-> item.label, quadrant |-> item.quadrant, ring |-> item.ring,
              id |-> RawId(index), pos |-> Origin, target |-> Origin,
              targetRadius |-> Zero, valid |-> FALSE]
        ELSE LET targetRadius == TargetRadius(radius, ringIndex)
                 targetAngle  == TargetAngle(quadrantIndex, index, length)
             IN  [label |-> item.label, quadrant |-> item.quadrant, ring |-> item.ring,
                  id |-> NodeId(index),
                  pos |-> Polar(targetRadius, targetAngle),
                  target |-> Polar(targetRadius, targetAngle),
                  targetRadius |-> targetRadius, valid |-> TRUE]

IsValidNode(node) == node.valid

\* Mutant of prepareNodesForSimulation: an item is spread by its rank among the
\* items of its own quadrant.
prepareNodesRankInQuadrant(data, radius) ==
    LET Same(k) == { m \in 1..Len(data) : data[m].quadrant = data[k].quadrant }
        Rank(k) == Cardinality({ m \in Same(k) : m < k })
    IN  SelectSeq([k \in 1..Len(data) |->
                  StageNode(data[k], Rank(k), Cardinality(Same(k)), radius)],
               IsValidNode)

\* Mutant of prepareNodesForSimulation: the staged nodes are not filtered.
prepareNodesUnfiltered(data, radius) ==
    [k \in 1..Len(data) |-> StageNode(data[k], k - 1, Len(data), radius)]

prepareNodesForSimulation(data, radius) ==
    SelectSeq([k \in 1..Len(data) |-> StageNode(data[k], k - 1, Len(data), radius)],
           IsValidNode)

(***************************************************************************)
(* State                                                                   *)
(***************************************************************************)
VARIABLES
    phase,           \* "start", "fetching", "ready", "failed": where initializeRadar is
    radarData,       \* let radarData
    size,            \* <<width, height>> of .radar-container (getBoundingClientRect)
    resizeTimer,     \* the pending timeouts of the debounced resize redraw: ms left
    activeFilters,   \* let activeFilters = { ring, quadrant }
    dropdowns,       \* the values of #status-filter (ring) and #quadrant-filter
    currentTheme,    \* let currentTheme
    themePreference, \* localStorage item 'themePreference'
    systemDark,      \* matchMedia('(prefers-color-scheme: dark)').matches
    htmlDark,        \* class 'dark' on the html element
    selectedNodeId,  \* let selectedNodeId
    panel,           \* #details-panel: [open, title]
    svg,             \* the radar SVG: [present, group, legend, rings, quadrantLabels, nodes]
    simulation,      \* the force simulation of the nodes drawn
    list,            \* #quadrants-list: the groups drawn by createList
    errorShown,      \* the error message replaced the content of .radar-container
    passSteps,       \* the functions the latest drawRadar call ran, in order
    files,           \* the server's disk: templates/index.html and data/radar.yaml
    httpResponse     \* the answer to the latest request served, with their count

clientVars == <<phase, radarData, size, resizeTimer, activeFilters, dropdowns,
                currentTheme, themePreference, systemDark, htmlDark, selectedNodeId,
                panel, svg, simulation, list, errorShown, passSteps>>

serverVars == <<files, httpResponse>>

vars == <<clientVars, serverVars>>

(***************************************************************************)
(* Bounds of the model                                                     *)
(***************************************************************************)
MaxItems == 2
MaxLayoutItems == 3
MaxFileItems == 2
MaxRequests == 3
MaxTimerTicks == 2

\* Items a snapshot may hold: a valid one, one with an unrecognized ring, one
\* with an unrecognized quadrant; a snapshot may hold an item more than once.
ItemPool ==
    { [label |-> "Kubernetes", quadrant |-> "Platforms", ring |-> "Adopted"],
      [label |-> "CVS",        quadrant |-> "Tools",     ring |-> "Retired"],
      [label |-> "Abacus",     quadrant |-> "Hardware",  ring |-> "Adopted"] }

SeqsUpTo(S, n) == UNION { [1..k -> S] : k \in 0..n }

Snapshots == SeqsUpTo(ItemPool, MaxItems)

\* Inputs of the layout alone: every ring, recognized or not, in two recognized
\* quadrants and an unrecognized one.
LayoutItems ==
    { [label |-> "item", quadrant |-> q, ring |-> r] :
        q \in {"Platforms", "Techniques", "Hardware"},
        r \in {"Not Recommended", "In Discovery", "Adopted", "Retired"} }

LayoutSnapshots == SeqsUpTo(LayoutItems, MaxLayoutItems)

PositiveSizes == { <<800, 600>>, <<600, 400>> }

\* Sizes of the container: one of no height, two of positive radius.
ContainerSizes == { <<800, 0>>, <<800, 600>>, <<600, 400>> }

StoredThemes == { NullStr, "system", "light", "dark", "sepia" }

\* Entries of Items in data/radar.yaml: a complete item, a map whose Label is no
\* string and whose other keys are missing, an entry that is no map, and a map
\* with a key that is no string (2025: reviewed) next to the keys of an item.
\* yaml.Unmarshal gives a mapping whose keys are all strings the dynamic type
\* map[string]interface{} and any other mapping map[interface{}]interface{}.
FileEntries ==
    { [isMap |-> TRUE, stringKeys |-> TRUE, Label |-> [t |-> "string", v |-> "Kubernetes"],
       Quadrant |-> [t |-> "string", v |-> "Platforms"],
       Ring |-> [t |-> "string", v |-> "Adopted"],
       Moved |-> [t |-> "bool", v |-> "true"],
       Description |-> [t |-> "string", v |-> "Container orchestration"],
       Owners |-> [t |-> "string", v |-> "Platform team"]],
      [isMap |-> TRUE, stringKeys |-> TRUE, Label |-> [t |-> "other", v |-> "42"],
       Quadrant |-> [t |-> "absent", v |-> ""], Ring |-> [t |-> "absent", v |-> ""],
       Moved |-> [t |-> "absent", v |-> ""], Description |-> [t |-> "absent", v |-> ""],
       Owners |-> [t |-> "absent", v |-> ""]],
      [isMap |-> FALSE, stringKeys |-> FALSE, Label |-> [t |-> "absent", v |-> ""],
       Quadrant |-> [t |-> "absent", v |-> ""], Ring |-> [t |-> "absent", v |-> ""],
       Moved |-> [t |-> "absent", v |-> ""], Description |-> [t |-> "absent", v |-> ""],
       Owners |-> [t |-> "absent", v |-> ""]],
      [isMap |-> TRUE, stringKeys |-> FALSE, Label |-> [t |-> "string", v |-> "Bazel"],
       Quadrant |-> [t |-> "string", v |-> "Tools"],
       Ring |-> [t |-> "string", v |-> "In Discovery"],
       Moved |-> [t |-> "bool", v |-> "false"],
       Description |-> [t |-> "string", v |-> "Build system"],
       Owners |-> [t |-> "string", v |-> "Build team"]] }

\* data/radar.yaml: missing, not a YAML mapping, or a mapping with its
\* LastModified and Items values.
YamlFile(lastModified, items) ==
    [readable |-> TRUE, parses |-> TRUE, LastModified |-> lastModified, Items |-> items]

NoItems == [t |-> "absent", elems |-> <<>>]

UnreadableFile == [readable |-> FALSE, parses |-> FALSE,
                   LastModified |-> [t |-> "absent", v |-> ""], Items |-> NoItems]
UnparseableFile == [readable |-> TRUE, parses |-> FALSE,
                    LastModified |-> [t |-> "absent", v |-> ""], Items |-> NoItems]

DataFiles ==
    { UnreadableFile, UnparseableFile }
    \cup { YamlFile([t |-> "string", v |-> "2025-05-01"], [t |-> "list", elems |-> l]) :
             l \in SeqsUpTo(FileEntries, MaxFileItems) }
    \cup { YamlFile([t |-> "string", v |-> "2025-05-01"], NoItems),
           YamlFile([t |-> "string", v |-> "2025-05-01"], [t |-> "other", elems |-> <<>>]),
           YamlFile([t |-> "string", v |-> "2025-06-01"], [t |-> "list", elems |-> <<>>]),
           YamlFile([t |-> "other", v |-> "42"], [t |-> "list", elems |-> <<>>]),
           YamlFile([t |-> "absent", v |-> ""], NoItems) }

\* The disk as deployed: the template and a data file without entries.
DeployedFiles ==
    [template |-> TRUE,
     data |-> YamlFile([t |-> "string", v |-> "2025-05-01"], [t |-> "list", elems |-> <<>>])]

(***************************************************************************)
(* Filters and the list view                                               *)
(***************************************************************************)
\* The predicate of filterData's data.filter, lines 96-100.
MatchesFilters(filters, item) ==
    LET matchesRing     == filters.ring = NullStr \/ item.ring = filters.ring
        matchesQuadrant == filters.quadrant = NullStr \/ item.quadrant = filters.quadrant
    IN  matchesRing /\ matchesQuadrant

\* Mutant of filterData: an item is kept when it matches one of the filters.
filterDataOnEitherFilter(filters, data) ==
    IF filters.ring = NullStr /\ filters.quadrant = NullStr THEN data
    ELSE LET Keep(item) ==
                 \/ filters.ring # NullStr /\ item.ring = filters.ring
                 \/ filters.quadrant # NullStr /\ item.quadrant = filters.quadrant
         IN  SelectSeq(data, Keep)

filterData(filters, data) ==
    IF filters.ring = NullStr /\ filters.quadrant = NullStr THEN data
    ELSE LET Keep(item) == MatchesFilters(filters, item) IN SelectSeq(data, Keep)

\* getNodeOpacity of drawNodes, lines 547-552.
getNodeOpacity(filters, d) ==
    IF filters.ring = NullStr /\ filters.quadrant = NullStr THEN Rat(1, 1)
    ELSE IF MatchesFilters(filters, d) THEN Rat(1, 1) ELSE Rat(2, 10)

\* Mutant of createList: only the items with a ring of RINGS are listed.
createListOfKnownRings(data) ==
    LET QuadrantData(quadrant) ==
            LET InQuadrant(item) ==
                    item.quadrant = quadrant /\ indexOf(RINGS, item.ring) # -1
            IN  SelectSeq(data, InQuadrant)
        groups == [i \in 1..Len(QUADRANTS) |->
                     [quadrant |-> QUADRANTS[i], items |-> QuadrantData(QUADRANTS[i])]]
        NonEmpty(g) == Len(g.items) # 0
    IN  SelectSeq(groups, NonEmpty)

\* createList: one group per quadrant of QUADRANTS that has items, each with the
\* items of data of that quadrant (the list is emptied first).
createList(data) ==
    LET QuadrantData(quadrant) ==
            LET InQuadrant(item) == item.quadrant = quadrant IN SelectSeq(data, InQuadrant)
        groups == [i \in 1..Len(QUADRANTS) |->
                     [quadrant |-> QUADRANTS[i], items |-> QuadrantData(QUADRANTS[i])]]
        NonEmpty(g) == Len(g.items) # 0
    IN  SelectSeq(groups, NonEmpty)

(***************************************************************************)
(* Theme                                                                   *)
(***************************************************************************)
isDarkMode(theme, sysDark) ==
    IF theme = "light" THEN FALSE
    ELSE IF theme = "dark" THEN TRUE
    ELSE sysDark

\* localStorage.getItem('themePreference') || 'system'
StoredOrSystem(stored) == IF stored = NullStr \/ stored = "" THEN "system" ELSE stored

\* The inline script of index.html, lines 28-42.
InlineThemeDark(stored, sysDark) ==
    LET storedPreference == StoredOrSystem(stored)
    IN  storedPreference = "dark" \/ (storedPreference = "system" /\ sysDark)

\* Mutant of NextTheme: the cycle is walked backwards.
NextThemeBackwards(theme) ==
    THEMES[((indexOf(THEMES, theme) + Len(THEMES) - 1) % Len(THEMES)) + 1]

\* THEMES[(THEMES.indexOf(currentTheme) + 1) % THEMES.length]
NextTheme(theme) == THEMES[((indexOf(THEMES, theme) + 1) % Len(THEMES)) + 1]

\* Mutant of addEventListener: a listener is added whether registered or not.
addEventListenerAgain(listeners, callback) == Append(listeners, callback)

\* target.addEventListener('click', callback): the callback joins the target's
\* listeners unless the same function is registered for the event already.
addEventListener(listeners, callback) ==
    IF \E i \in 1..Len(listeners) : listeners[i] = callback
    THEN listeners
    ELSE Append(listeners, callback)

\* The click listeners of #theme-toggle once initializeRadar has run: toggleTheme
\* is registered by initTheme (line 199) and again by initializeRadar (line 646).
themeToggleListeners ==
    addEventListener(addEventListener(<<>>, "toggleTheme"), "toggleTheme")

\* currentTheme after a click on #theme-toggle: each listener runs in turn, and
\* each run of toggleTheme takes currentTheme to the next of THEMES.
RECURSIVE dispatchClick(_, _)
dispatchClick(listeners, theme) ==
    IF listeners = <<>> THEN theme
    ELSE dispatchClick(Tail(listeners), NextTheme(theme))

(***************************************************************************)
(* The debounced resize handler                                            *)
(***************************************************************************)
\* setTimeout(f, wait), line 88: one more timeout is pending, due in wait ms.
setTimeout(timers, wait) == Append(timers, wait)

\* Mutant of clearTimeout: the timeout stays pending.
clearTimeoutKeepsPending(timers) == timers

\* clearTimeout(timeout), line 87: timeout is the one the call before has set,
\* the latest; it is cancelled when still pending.
clearTimeout(timers) ==
    IF timers = <<>> THEN timers ELSE SubSeq(timers, 1, Len(timers) - 1)

\* A call of the function debounce(func, wait) returns, lines 85-89.
debounce(timers, wait) == setTimeout(clearTimeout(timers), wait)

\* The timeouts after ms milliseconds have passed.
AfterDelay(timers, ms) ==
    [i \in 1..Len(timers) |-> IF timers[i] > ms THEN timers[i] - ms ELSE 0]

(***************************************************************************)
(* Drawing the radar                                                       *)
(***************************************************************************)
\* No drag gesture is in progress; otherwise node is the index of the node dragged
\* and origin its position when the gesture started.
NoDrag == [node |-> 0, origin |-> Origin]

\* d.fx and d.fy of a node that is not fixed (undefined or null).
NotFixed == [set |-> FALSE, at |-> Origin]

NoSimulation == [exists |-> FALSE, start |-> <<>>, labels |-> <<>>, ticks |-> 0,
                 running |-> FALSE, nudged |-> {}, alphaTarget |-> Zero,
                 drag |-> NoDrag]

EmptySvg(present) ==
    [present |-> present, group |-> FALSE, legend |-> FALSE, rings |-> <<>>,
     ringLabels |-> <<>>, quadrantLabels |-> <<>>, nodes |-> <<>>]

\* drawRadarStructure, lines 400-425: ring i is the circle of radius
\* radiusScale(RINGS.length - i), labelled RINGS[i] just inside it.
RingCircles(radius) ==
    [k \in 1..Len(RINGS) |-> radiusScale(radius, Len(RINGS) - (k - 1))]

\* Mutant of RingLabels: the names are written from the innermost circle outwards.
RingLabelsInnermostFirst(radius) ==
    LET all == [k \in 1..Len(RINGS) |->
                  [ringIndexForScale |-> Len(RINGS) - (k - 1),
                   text |-> RINGS[Len(RINGS) - (k - 1)],
                   x |-> Zero,
                   y |-> RAdd(RSub(Zero, radiusScale(radius, Len(RINGS) - (k - 1))),
                              Int2Rat(ringLabelYOffset))]]
        Labelled(l) == l.ringIndexForScale > 0
    IN  SelectSeq(all, Labelled)

RingLabels(radius) ==
    LET all == [k \in 1..Len(RINGS) |->
                  [ringIndexForScale |-> Len(RINGS) - (k - 1),
                   text |-> RINGS[k],
                   x |-> Zero,
                   y |-> RAdd(RSub(Zero, radiusScale(radius, Len(RINGS) - (k - 1))),
                              Int2Rat(ringLabelYOffset))]]
        Labelled(l) == l.ringIndexForScale > 0
    IN  SelectSeq(all, Labelled)

ringLabelPositions(radius) ==
    LET labels == RingLabels(radius)
    IN  [k \in 1..Len(labels) |-> [x |-> labels[k].x, y |-> labels[k].y]]

\* The test distance < LAYOUT.ringLabelExclusionRadius of lines 523-527, for a
\* position in polar form and a label anchor (0, y).  With t the angle between the
\* two, distance^2 = (r - rl)^2 + 2 r rl (1 - cos t) <= (r - rl)^2 + r rl t^2, and
\* t <= turn * 22/7: the test is certainly true when that bound is below the
\* square of the exclusion radius.
RAbs(p) == IF RLt(p, Zero) THEN RSub(Zero, p) ELSE p

LabelAngle(labelPos) == IF RLt(labelPos.y, Zero) THEN Rat(-1, 2) ELSE Rat(1, 2)

\* The angle between two directions, in units of PI, within 0..1.
Turn(a, b) ==
    IF RLt(Int2Rat(1), RAbs(RSub(a, b)))
    THEN RSub(Int2Rat(2), RAbs(RSub(a, b)))
    ELSE RAbs(RSub(a, b))

DistanceSquaredBound(pos, labelPos) ==
    LET r  == pos.r
        rl == RAbs(labelPos.y)
        t  == RMul(Turn(pos.a, LabelAngle(labelPos)), Rat(22, 7))
    IN  RAdd(RMul(RSub(r, rl), RSub(r, rl)), RMul(RMul(r, rl), RMul(t, t)))

NearLabel(pos, labelPos) ==
    RLt(DistanceSquaredBound(pos, labelPos),
        Int2Rat(ringLabelExclusionRadius * ringLabelExclusionRadius))

\* The argument a force is called with.  simulation.tick(n) of d3 calls each
\* registered force once per iteration as force(alpha): the function registered
\* at line 521 receives the number alpha as its parameter d, not a node.
ForceArgument(nodes, k) == [isNode |-> FALSE, pos |-> Origin]

\* The function registered as the force "avoidLabels", lines 521-535: TRUE when
\* the body of its if statement runs for d, that is when d receives the
\* correction of vx and vy.  For a number d, d.x and d.y are undefined, the
\* distance is NaN and distance < ringLabelExclusionRadius is false.
avoidLabels(d, labelPositions) ==
    /\ d.isNode
    /\ \E l \in 1..Len(labelPositions) : NearLabel(d.pos, labelPositions[l])

\* positionNodes, lines 516-540: the simulation is created stopped and advanced
\* by simulationTicks ticks.  A node's position after the ticks is the value
\* the simulation gives node i from the start positions and the label positions
\* it was handed; it is kept as that term.  nudged holds the nodes that receive
\* the correction of avoidLabels in the first tick, where every node is at its
\* start position.
positionNodes(nodes, labelPositions) ==
    [exists |-> TRUE,
     start |-> [k \in 1..Len(nodes) |-> nodes[k].pos],
     labels |-> labelPositions,
     ticks |-> simulationTicks,
     running |-> FALSE,
     nudged |-> { k \in 1..Len(nodes) :
                    avoidLabels(ForceArgument(nodes, k), labelPositions) },
     alphaTarget |-> Zero,
     drag |-> NoDrag]

SimulatedPos(sim, i) ==
    [start |-> sim.start, labels |-> sim.labels, ticks |-> sim.ticks, i |-> i,
     by |-> <<0, 0>>]

\* The point at the displacement delta from a position: event.x, event.y of a drag
\* event, for the position of the node at the start of the gesture.
Displaced(pos, delta) == [pos EXCEPT !.by = <<pos.by[1] + delta[1], pos.by[2] + delta[2]>>]

\* drawNodes, lines 543-577: one group per node, at translate(d.x, d.y).  pos is
\* d.x, d.y of the datum, fx is d.fx, d.fy, transform the attribute of the group.
drawNodes(nodes, sim, filters) ==
    [k \in 1..Len(nodes) |->
        [label |-> nodes[k].label, quadrant |-> nodes[k].quadrant, ring |-> nodes[k].ring,
         id |-> nodes[k].id, target |-> nodes[k].target,
         targetRadius |-> nodes[k].targetRadius, valid |-> nodes[k].valid,
         pos |-> SimulatedPos(sim, k),
         fx |-> NotFixed,
         transform |-> SimulatedPos(sim, k),
         opacity |-> getNodeOpacity(filters, nodes[k])]]

\* drawRadar, lines 630-633: the simulation and the nodes drawn.
drawPositioned(structure, nodes, sim, filters) ==
    [svg |-> [structure EXCEPT !.nodes = drawNodes(nodes, sim, filters)],
     simulation |-> sim,
     steps |-> <<"setupRadarSVG", "drawRadarStructure", "prepareNodesForSimulation",
                 "positionNodes", "drawNodes">>]

\* drawRadar, lines 627-633: from the nodes prepared on.
drawPrepared(structure, nodes, labelPositions, filters) ==
    IF Len(nodes) = 0
    THEN [svg |-> structure, simulation |-> NoSimulation,
          steps |-> <<"setupRadarSVG", "drawRadarStructure",
                      "prepareNodesForSimulation">>]
    ELSE drawPositioned(structure, nodes, positionNodes(nodes, labelPositions), filters)

\* Mutant of drawWithRadius: the radius is not checked.
drawWithRadiusUnchecked(data, filters, radius, setup) ==
    drawPrepared([setup EXCEPT !.rings = RingCircles(radius),
                               !.ringLabels = RingLabels(radius),
                               !.quadrantLabels = QUADRANTS],
                 prepareNodesForSimulation(data, radius),
                 ringLabelPositions(radius), filters)

\* drawRadar, lines 617-633: from the radius setupRadarSVG computed on.
drawWithRadius(data, filters, radius, setup) ==
    IF RLe(radius, Zero)
    THEN [svg |-> setup, simulation |-> NoSimulation, steps |-> <<"setupRadarSVG">>]
    ELSE drawPrepared([setup EXCEPT !.rings = RingCircles(radius),
                                    !.ringLabels = RingLabels(radius),
                                    !.quadrantLabels = QUADRANTS],
                      prepareNodesForSimulation(data, radius),
                      ringLabelPositions(radius), filters)

\* Mutant of drawRadar: an empty list is drawn like any other.
drawRadarOfAnyData(data, filters, sz, svgNow) ==
    drawWithRadius(data, filters, Radius(sz[1], sz[2]),
                   [EmptySvg(svgNow.present) EXCEPT !.group = TRUE, !.legend = TRUE])

\* Mutant of drawRadar: the pass lays out the filtered list.
drawRadarOfFiltered(data, filters, sz, svgNow) ==
    IF Len(filterData(filters, data)) = 0
    THEN [svg |-> EmptySvg(svgNow.present), simulation |-> NoSimulation, steps |-> <<>>]
    ELSE drawWithRadius(filterData(filters, data), filters, Radius(sz[1], sz[2]),
                        [EmptySvg(svgNow.present) EXCEPT !.group = TRUE, !.legend = TRUE])

\* Mutant of drawRadar: setupRadarSVG does not remove what the SVG holds.
drawRadarOverEarlier(data, filters, sz, svgNow) ==
    IF Len(data) = 0
    THEN [svg |-> EmptySvg(svgNow.present), simulation |-> NoSimulation, steps |-> <<>>]
    ELSE drawWithRadius(data, filters, Radius(sz[1], sz[2]),
                        [svgNow EXCEPT !.group = TRUE, !.legend = TRUE])

\* drawRadar(data), lines 608-634, with setupRadarSVG: the SVG, the simulation and the
\* steps run, from the container's size and the filters at the time of the call.
drawRadar(data, filters, sz, svgNow) ==
    IF Len(data) = 0
    THEN [svg |-> EmptySvg(svgNow.present), simulation |-> NoSimulation, steps |-> <<>>]
    ELSE drawWithRadius(data, filters, Radius(sz[1], sz[2]),
                        [EmptySvg(svgNow.present) EXCEPT !.group = TRUE, !.legend = TRUE])

(***************************************************************************)
(* The server, main.go                                                     *)
(***************************************************************************)
\* A value of the YAML document as the type assertions of loadRadarData see
\* it: a string, a boolean, a value of another type, or no value at the key.
Str(v)  == [t |-> "string", v |-> v]
Bool(b) == [t |-> "bool", v |-> IF b THEN "true" ELSE "false"]
Other   == [t |-> "other", v |-> "42"]
Absent  == [t |-> "absent", v |-> ""]

\* v, ok := x.(string) and x.(bool): the zero value when the assertion fails.
AsString(x) == IF x.t = "string" THEN x.v ELSE ""
AsBool(x)   == x.t = "bool" /\ x.v = "true"

\* A Go slice: nil, or the elements appended so far.
NilSlice == [isNil |-> TRUE, elems |-> <<>>]
append(slice, x) == [isNil |-> FALSE, elems |-> Append(slice.elems, x)]

\* loadRadarData, lines 74-95: the RadarItem of an entry that is a map.
RadarItem(itemMap) ==
    [label       |-> AsString(itemMap.Label),
     quadrant    |-> AsString(itemMap.Quadrant),
     ring        |-> AsString(itemMap.Ring),
     moved       |-> AsBool(itemMap.Moved),
     description |-> AsString(itemMap.Description),
     owners      |-> AsString(itemMap.Owners)]

\* itemMap, ok := item.(map[string]interface{}), line 74: ok for a mapping whose
\* keys are all strings.
IsStringMap(item) == item.isMap /\ item.stringKeys

\* loadRadarData, lines 72-98: the loop over the entries of Items.
RECURSIVE RangeItems(_, _)
RangeItems(entries, items) ==
    IF entries = <<>> THEN items
    ELSE RangeItems(Tail(entries),
                    IF IsStringMap(Head(entries))
                    THEN append(items, RadarItem(Head(entries)))
                    ELSE items)

NoError == [isNil |-> TRUE, Code |-> 0, Message |-> ""]
AppError(code, message) == [isNil |-> FALSE, Code |-> code, Message |-> message]

EmptyRadarData == [LastModified |-> "", Items |-> NilSlice]

\* Mutant of loadRadarData: a document that does not parse gives no error.
loadRadarDataLenient(file) ==
    IF ~file.readable
    THEN [data |-> EmptyRadarData, err |-> AppError(500, "Failed to read radar data")]
    ELSE IF ~file.parses
    THEN [data |-> EmptyRadarData, err |-> NoError]
    ELSE [data |-> [LastModified |-> AsString(file.LastModified),
                    Items |-> IF file.Items.t = "list"
                              THEN RangeItems(file.Items.elems, NilSlice)
                              ELSE NilSlice],
          err |-> NoError]

\* loadRadarData, lines 50-102.
loadRadarData(file) ==
    IF ~file.readable
    THEN [data |-> EmptyRadarData, err |-> AppError(500, "Failed to read radar data")]
    ELSE IF ~file.parses
    THEN [data |-> EmptyRadarData, err |-> AppError(500, "Failed to parse radar data")]
    ELSE [data |-> [LastModified |-> AsString(file.LastModified),
                    Items |-> IF file.Items.t = "list"
                              THEN RangeItems(file.Items.elems, NilSlice)
                              ELSE NilSlice],
          err |-> NoError]

\* What a handler wrote to the http.ResponseWriter: the status, the content
\* type, and the body, which is a plain text, the JSON encoding of a RadarData
\* (items null for a nil slice) or the page rendered from the template.  n counts
\* the requests served and before is the status of the answer before this one.
NoJson == [present |-> FALSE, lastModified |-> "", items |-> NilSlice]
NoPage == [present |-> FALSE, lastModified |-> ""]

NoResponse ==
    [n |-> 0, before |-> 0, route |-> "", status |-> 0, contentType |-> "",
     text |-> "", json |-> NoJson, page |-> NoPage]

\* handleError, lines 105-112: http.Error with the message and the code.
handleError(err) ==
    [NoResponse EXCEPT !.status = err.Code,
                       !.contentType = "text/plain; charset=utf-8",
                       !.text = err.Message]

\* json.NewEncoder(w).Encode(data), line 123, with the tags of lines 19-33.
Encode(data) ==
    [present |-> TRUE, lastModified |-> data.LastModified, items |-> data.Items]

\* Mutant of apiHandler: the data encoded for an earlier request is served again.
apiHandlerCached(fs) ==
    IF httpResponse.json.present
    THEN [NoResponse EXCEPT !.status = 200,
                            !.contentType = "application/json",
                            !.json = httpResponse.json]
    ELSE IF ~loadRadarData(fs.data).err.isNil
    THEN handleError(loadRadarData(fs.data).err)
    ELSE [NoResponse EXCEPT !.status = 200,
                            !.contentType = "application/json",
                            !.json = Encode(loadRadarData(fs.data).data)]

\* apiHandler, lines 115-126.
apiHandler(fs) ==
    IF ~loadRadarData(fs.data).err.isNil
    THEN handleError(loadRadarData(fs.data).err)
    ELSE [NoResponse EXCEPT !.status = 200,
                            !.contentType = "application/json",
                            !.json = Encode(loadRadarData(fs.data).data)]

\* indexHandler, lines 129-145.
indexHandler(fs) ==
    IF ~fs.template
    THEN handleError(AppError(500, "Failed to load template"))
    ELSE IF ~loadRadarData(fs.data).err.isNil
    THEN handleError(loadRadarData(fs.data).err)
    ELSE [NoResponse EXCEPT !.status = 200,
                            !.contentType = "text/html; charset=utf-8",
                            !.page = [present |-> TRUE,
                                      lastModified |->
                                        loadRadarData(fs.data).data.LastModified]]

\* healthHandler, lines 148-151.
healthHandler ==
    [NoResponse EXCEPT !.status = 200,
                       !.contentType = "text/plain; charset=utf-8",
                       !.text = "OK"]

(***************************************************************************)
(* Initial state: the page is parsed, the inline theme script and the      *)
(* top level of radar.js have run, DOMContentLoaded has not fired yet.     *)
(***************************************************************************)
InitClient(sizes, storedThemes, systemSchemes) ==
    /\ phase = "start"
    /\ radarData = <<>>
    /\ size \in sizes
    /\ resizeTimer = <<>>
    /\ activeFilters = [ring |-> NullStr, quadrant |-> NullStr]
    /\ dropdowns = [ring |-> "", quadrant |-> ""]
    /\ currentTheme = "system"
    /\ themePreference \in storedThemes
    /\ systemDark \in systemSchemes
    /\ htmlDark = InlineThemeDark(themePreference, systemDark)
    /\ selectedNodeId = Null
    /\ panel = [open |-> FALSE, title |-> ""]
    /\ svg = EmptySvg(TRUE)
    /\ simulation = NoSimulation
    /\ list = <<>>
    /\ errorShown = FALSE
    /\ passSteps = <<>>

\* The server has started and has served no request.
InitWith(sizes, storedThemes, systemSchemes) ==
    /\ InitClient(sizes, storedThemes, systemSchemes)
    /\ files = DeployedFiles
    /\ httpResponse = NoResponse

Init == InitWith(ContainerSizes, StoredThemes, BOOLEAN)

(***************************************************************************)
(* Handlers                                                                *)
(***************************************************************************)
\* A call drawRadar(data) under the filters given.
Redraw(data, filters) ==
    \E result \in { drawRadar(data, filters, size, svg) } :
        /\ svg' = result.svg
        /\ simulation' = result.simulation
        /\ passSteps' = result.steps

\* The value a select element takes when set to v.
SelectValue(options, v) == IF v \in options THEN v ELSE ""

QuadrantOptions == { QUADRANTS[i] : i \in 1..Len(QUADRANTS) }
StatusOptions   == { RINGS[i] : i \in 1..Len(RINGS) }

\* Mutant of updateFiltersUI: the radar is drawn from the filtered list.
updateFiltersUIOfFiltered(filters) ==
    /\ dropdowns' =
         [quadrant |-> SelectValue(QuadrantOptions,
                         IF filters.quadrant = NullStr THEN "" ELSE filters.quadrant),
          ring     |-> SelectValue(StatusOptions,
                         IF filters.ring = NullStr THEN "" ELSE filters.ring)]
    /\ list' = createList(filterData(filters, radarData))
    /\ Redraw(filterData(filters, radarData), filters)

\* updateFiltersUI, lines 104-115, under the filters given.
updateFiltersUI(filters) ==
    /\ dropdowns' =
         [quadrant |-> SelectValue(QuadrantOptions,
                         IF filters.quadrant = NullStr THEN "" ELSE filters.quadrant),
          ring     |-> SelectValue(StatusOptions,
                         IF filters.ring = NullStr THEN "" ELSE filters.ring)]
    /\ list' = createList(filterData(filters, radarData))
    /\ Redraw(radarData, filters)

\* DOMContentLoaded: initializeRadar up to the fetch, with initTheme.
InitializeRadar ==
    /\ phase = "start"
    /\ phase' = "fetching"
    /\ currentTheme' = StoredOrSystem(themePreference)
    /\ htmlDark' = isDarkMode(currentTheme', systemDark)
    /\ UNCHANGED <<radarData, size, resizeTimer, activeFilters, dropdowns,
                   themePreference, systemDark, selectedNodeId, panel, svg,
                   simulation, list, errorShown, passSteps>>
    /\ UNCHANGED serverVars

\* The response of /api/radar is OK and parses: lines 657-666.
ResponsesOf(snapshots) ==
    { [items |-> <<>>, itemsNull |-> TRUE] }
    \cup { [items |-> d, itemsNull |-> FALSE] : d \in snapshots }

Responses == ResponsesOf(Snapshots)

FetchSucceeds(response) ==
    /\ phase = "fetching"
    /\ phase' = "ready"
    /\ radarData' = IF response.itemsNull THEN <<>> ELSE response.items
    /\ Redraw(radarData', activeFilters)
    /\ list' = createList(radarData')
    /\ UNCHANGED <<size, resizeTimer, activeFilters, dropdowns, currentTheme,
                   themePreference, systemDark, htmlDark, selectedNodeId, panel,
                   errorShown>>
    /\ UNCHANGED serverVars

\* Mutant of FetchFails: the failure is handled like an empty list.
FetchFailsSilently ==
    /\ phase = "fetching"
    /\ phase' = "failed"
    /\ svg' = EmptySvg(svg.present)
    /\ simulation' = NoSimulation
    /\ UNCHANGED <<radarData, size, resizeTimer, activeFilters, dropdowns,
                   currentTheme, themePreference, systemDark, htmlDark,
                   selectedNodeId, panel, list, passSteps, errorShown>>
    /\ UNCHANGED serverVars

\* The response is not OK or does not parse: the catch handler, lines 667-674,
\* replaces the content of .radar-container, the SVG included.
FetchFails ==
    /\ phase = "fetching"
    /\ phase' = "failed"
    /\ errorShown' = TRUE
    /\ svg' = EmptySvg(FALSE)
    /\ simulation' = NoSimulation
    /\ UNCHANGED <<radarData, size, resizeTimer, activeFilters, dropdowns,
                   currentTheme, themePreference, systemDark, htmlDark,
                   selectedNodeId, panel, list, passSteps>>
    /\ UNCHANGED serverVars

\* The window is resized: the container takes a new size; once the resize
\* listener is registered (line 665), the debounced function is called.
Resize(sz) ==
    /\ sz # size
    /\ size' = sz
    /\ resizeTimer' = IF phase = "ready"
                      THEN debounce(resizeTimer, resizeDebounceDelay)
                      ELSE resizeTimer
    /\ UNCHANGED <<phase, radarData, activeFilters, dropdowns, currentTheme,
                   themePreference, systemDark, htmlDark, selectedNodeId, panel,
                   svg, simulation, list, errorShown, passSteps>>
    /\ UNCHANGED serverVars

\* Time passes while a timeout is pending and not due.
TimePasses(ms) ==
    /\ \E i \in 1..Len(resizeTimer) : resizeTimer[i] > 0
    /\ resizeTimer' = AfterDelay(resizeTimer, ms)
    /\ UNCHANGED <<phase, radarData, size, activeFilters, dropdowns, currentTheme,
                   themePreference, systemDark, htmlDark, selectedNodeId, panel,
                   svg, simulation, list, errorShown, passSteps>>
    /\ UNCHANGED serverVars

\* The earliest timeout is due and leaves the pending ones.
TimeoutFires ==
    /\ resizeTimer # <<>>
    /\ Head(resizeTimer) = 0
    /\ resizeTimer' = Tail(resizeTimer)

\* The earliest timeout is due and fires: drawRadar(radarData), line 665.
ResizeTimerFires ==
    /\ TimeoutFires
    /\ Redraw(radarData, activeFilters)
    /\ UNCHANGED <<phase, radarData, size, activeFilters, dropdowns, currentTheme,
                   themePreference, systemDark, htmlDark, selectedNodeId, panel,
                   list, errorShown>>
    /\ UNCHANGED serverVars

\* A click on #theme-toggle: toggleTheme, lines 161-178.
ToggleTheme ==
    /\ phase # "start"
    /\ currentTheme' = dispatchClick(themeToggleListeners, currentTheme)
    /\ themePreference' = currentTheme'
    /\ htmlDark' = isDarkMode(currentTheme', systemDark)
    /\ Redraw(radarData, activeFilters)
    /\ UNCHANGED <<phase, radarData, size, resizeTimer, activeFilters, dropdowns,
                   systemDark, selectedNodeId, panel, list, errorShown>>
    /\ UNCHANGED serverVars

\* The system colour scheme changes: the listener of initTheme, lines 202-207.
SystemSchemeChanges ==
    /\ systemDark' = ~systemDark
    /\ IF phase # "start" /\ currentTheme = "system"
       THEN /\ htmlDark' = isDarkMode(currentTheme, systemDark')
            /\ Redraw(radarData, activeFilters)
       ELSE UNCHANGED <<htmlDark, svg, simulation, passSteps>>
    /\ UNCHANGED <<phase, radarData, size, resizeTimer, activeFilters, dropdowns,
                   currentTheme, themePreference, selectedNodeId, panel, list,
                   errorShown>>
    /\ UNCHANGED serverVars

\* Mutant of ClickLegend: the snapshot is replaced by the filtered list.
ClickLegendNarrowsData(ring) ==
    /\ svg.present /\ svg.legend
    /\ activeFilters' = [activeFilters EXCEPT
                           !.ring = IF activeFilters.ring = ring THEN NullStr ELSE ring]
    /\ radarData' = filterData(activeFilters', radarData)
    /\ dropdowns' =
         [quadrant |-> SelectValue(QuadrantOptions,
                         IF activeFilters'.quadrant = NullStr THEN ""
                         ELSE activeFilters'.quadrant),
          ring     |-> SelectValue(StatusOptions,
                         IF activeFilters'.ring = NullStr THEN "" ELSE activeFilters'.ring)]
    /\ list' = createList(radarData')
    /\ Redraw(radarData', activeFilters')
    /\ UNCHANGED <<phase, size, resizeTimer, currentTheme, themePreference,
                   systemDark, htmlDark, selectedNodeId, panel, errorShown>>
    /\ UNCHANGED serverVars

\* A click on the legend entry of a ring: setupLegend, lines 370-373.
ClickLegend(ring) ==
    /\ svg.present /\ svg.legend
    /\ activeFilters' = [activeFilters EXCEPT
                           !.ring = IF activeFilters.ring = ring THEN NullStr ELSE ring]
    /\ updateFiltersUI(activeFilters')
    /\ UNCHANGED <<phase, radarData, size, resizeTimer, currentTheme, themePreference,
                   systemDark, htmlDark, selectedNodeId, panel, errorShown>>
    /\ UNCHANGED serverVars

\* Mutant of ClickQuadrantLabel: the ring filter is dropped with the click.
ClickQuadrantLabelDropsRing(quadrant) ==
    /\ svg.present
    /\ \E i \in 1..Len(svg.quadrantLabels) : svg.quadrantLabels[i] = quadrant
    /\ activeFilters' = [ring |-> NullStr,
                         quadrant |-> IF activeFilters.quadrant = quadrant
                                      THEN NullStr ELSE quadrant]
    /\ updateFiltersUI(activeFilters')
    /\ UNCHANGED <<phase, radarData, size, resizeTimer, currentTheme, themePreference,
                   systemDark, htmlDark, selectedNodeId, panel, errorShown>>
    /\ UNCHANGED serverVars

\* A click on a quadrant label: drawRadarStructure, lines 459-462.
ClickQuadrantLabel(quadrant) ==
    /\ svg.present
    /\ \E i \in 1..Len(svg.quadrantLabels) : svg.quadrantLabels[i] = quadrant
    /\ activeFilters' = [activeFilters EXCEPT
                           !.quadrant = IF activeFilters.quadrant = quadrant
                                        THEN NullStr ELSE quadrant]
    /\ updateFiltersUI(activeFilters')
    /\ UNCHANGED <<phase, radarData, size, resizeTimer, currentTheme, themePreference,
                   systemDark, htmlDark, selectedNodeId, panel, errorShown>>
    /\ UNCHANGED serverVars

\* applyFilters, lines 272-280, from the values of the two dropdowns.
applyFilters(values) ==
    /\ activeFilters' = [quadrant |-> IF values.quadrant = "" THEN NullStr
                                      ELSE values.quadrant,
                         ring     |-> IF values.ring = "" THEN NullStr ELSE values.ring]
    /\ updateFiltersUI(activeFilters')

\* The user picks another option of #quadrant-filter (onchange).
ChangeQuadrantFilter(v) ==
    /\ phase # "start"
    /\ v # dropdowns.quadrant
    /\ applyFilters([dropdowns EXCEPT !.quadrant = v])
    /\ UNCHANGED <<phase, radarData, size, resizeTimer, currentTheme, themePreference,
                   systemDark, htmlDark, selectedNodeId, panel, errorShown>>
    /\ UNCHANGED serverVars

\* The user picks another option of #status-filter (onchange).
ChangeStatusFilter(v) ==
    /\ phase # "start"
    /\ v # dropdowns.ring
    /\ applyFilters([dropdowns EXCEPT !.ring = v])
    /\ UNCHANGED <<phase, radarData, size, resizeTimer, currentTheme, themePreference,
                   systemDark, htmlDark, selectedNodeId, panel, errorShown>>
    /\ UNCHANGED serverVars

\* A click on #reset-filters: resetFilters, lines 118-122.
ResetFilters ==
    /\ phase # "start"
    /\ activeFilters' = [ring |-> NullStr, quadrant |-> NullStr]
    /\ updateFiltersUI(activeFilters')
    /\ UNCHANGED <<phase, radarData, size, resizeTimer, currentTheme, themePreference,
                   systemDark, htmlDark, selectedNodeId, panel, errorShown>>
    /\ UNCHANGED serverVars

\* closeDetails, lines 261-269.
closeDetails ==
    /\ panel' = [panel EXCEPT !.open = FALSE]
    /\ selectedNodeId' = Null

\* showDetails(item), lines 215-258; id is item.id, label is item.label.
showDetails(id, label) ==
    IF selectedNodeId = id
    THEN closeDetails
    ELSE /\ selectedNodeId' = id
         /\ panel' = [open |-> TRUE, title |-> label]

\* A click on a node of the radar.
ClickNode(k) ==
    /\ svg.present
    /\ k \in 1..Len(svg.nodes)
    /\ showDetails(svg.nodes[k].id, svg.nodes[k].label)
    /\ UNCHANGED <<phase, radarData, size, resizeTimer, activeFilters, dropdowns,
                   currentTheme, themePreference, systemDark, htmlDark, svg,
                   simulation, list, errorShown, passSteps>>
    /\ UNCHANGED serverVars

\* A click on an entry of the list: the datum is an item of radarData, which
\* has no id.
ClickListItem(g, k) ==
    /\ g \in 1..Len(list)
    /\ k \in 1..Len(list[g].items)
    /\ showDetails(Undefined, list[g].items[k].label)
    /\ UNCHANGED <<phase, radarData, size, resizeTimer, activeFilters, dropdowns,
                   currentTheme, themePreference, systemDark, htmlDark, svg,
                   simulation, list, errorShown, passSteps>>
    /\ UNCHANGED serverVars

\* A click on the close button of the details panel.
CloseDetails ==
    /\ phase # "start"
    /\ closeDetails
    /\ UNCHANGED <<phase, radarData, size, resizeTimer, activeFilters, dropdowns,
                   currentTheme, themePreference, systemDark, htmlDark, svg,
                   simulation, list, errorShown, passSteps>>
    /\ UNCHANGED serverVars

\* setupDrag, "start", lines 139-143: the pointer goes down on node k.  No other
\* gesture is active, so the simulation is restarted with alphaTarget 0.3 and its
\* timer runs; the node is fixed where it is.
DragStart(k) ==
    /\ svg.present /\ simulation.exists
    /\ k \in 1..Len(svg.nodes)
    /\ simulation.drag.node = 0
    /\ simulation' = [simulation EXCEPT
                        !.alphaTarget = Rat(3, 10),
                        !.running = TRUE,
                        !.drag = [node |-> k, origin |-> svg.nodes[k].pos]]
    /\ svg' = [svg EXCEPT !.nodes[k].fx = [set |-> TRUE, at |-> svg.nodes[k].pos]]
    /\ UNCHANGED <<phase, radarData, size, resizeTimer, activeFilters, dropdowns,
                   currentTheme, themePreference, systemDark, htmlDark,
                   selectedNodeId, panel, list, errorShown, passSteps>>
    /\ UNCHANGED serverVars

\* setupDrag, "drag", lines 144-147: the pointer moves to delta from where it went
\* down.
Drag(delta) ==
    /\ simulation.drag.node # 0
    /\ svg.nodes[simulation.drag.node].fx.at # Displaced(simulation.drag.origin, delta)
    /\ svg' = [svg EXCEPT !.nodes[simulation.drag.node].fx =
                  [set |-> TRUE, at |-> Displaced(simulation.drag.origin, delta)]]
    /\ UNCHANGED <<phase, radarData, size, resizeTimer, activeFilters, dropdowns,
                   currentTheme, themePreference, systemDark, htmlDark,
                   selectedNodeId, panel, simulation, list, errorShown, passSteps>>
    /\ UNCHANGED serverVars

\* setupDrag, "end", lines 148-152: the pointer goes up.
DragEnd ==
    /\ simulation.drag.node # 0
    /\ simulation' = [simulation EXCEPT !.alphaTarget = Zero, !.drag = NoDrag]
    /\ svg' = [svg EXCEPT !.nodes[simulation.drag.node].fx = NotFixed]
    /\ UNCHANGED <<phase, radarData, size, resizeTimer, activeFilters, dropdowns,
                   currentTheme, themePreference, systemDark, htmlDark,
                   selectedNodeId, panel, list, errorShown, passSteps>>
    /\ UNCHANGED serverVars

\* The timer of a restarted simulation fires: one more tick.  A fixed node is put
\* at d.fx, d.fy, the others where the forces take them; no "tick" listener is
\* registered, so no transform attribute is written.  With alphaTarget 0 the tick
\* may be the one after which alpha is below alphaMin and the timer stops.
TimerTick(stops) ==
    /\ simulation.running
    /\ simulation.ticks < simulationTicks + MaxTimerTicks
    /\ stops => simulation.alphaTarget = Zero
    /\ simulation' = [simulation EXCEPT !.ticks = simulation.ticks + 1,
                                        !.running = ~stops]
    /\ svg' = [svg EXCEPT !.nodes =
                  [j \in 1..Len(svg.nodes) |->
                     [svg.nodes[j] EXCEPT !.pos =
                        IF svg.nodes[j].fx.set THEN svg.nodes[j].fx.at
                        ELSE SimulatedPos(simulation', j)]]]
    /\ UNCHANGED <<phase, radarData, size, resizeTimer, activeFilters, dropdowns,
                   currentTheme, themePreference, systemDark, htmlDark,
                   selectedNodeId, panel, list, errorShown, passSteps>>
    /\ UNCHANGED serverVars

\* Delays between two events: less than the delay of the debounce, and the delay.
Delays == { 100, resizeDebounceDelay }

\* Displacements of the pointer during a drag gesture.
Deltas == { <<0, -20>> }

\* A request to /api/radar is served.
GetApiRadar ==
    /\ httpResponse.n < MaxRequests
    /\ httpResponse' = [apiHandler(files) EXCEPT !.n = httpResponse.n + 1,
                                                 !.before = httpResponse.status,
                                                 !.route = "/api/radar"]
    /\ UNCHANGED <<files, clientVars>>

\* A request to / is served.
GetIndex ==
    /\ httpResponse.n < MaxRequests
    /\ httpResponse' = [indexHandler(files) EXCEPT !.n = httpResponse.n + 1,
                                                   !.before = httpResponse.status,
                                                   !.route = "/"]
    /\ UNCHANGED <<files, clientVars>>

\* A request to /health is served.
GetHealth ==
    /\ httpResponse.n < MaxRequests
    /\ httpResponse' = [healthHandler EXCEPT !.n = httpResponse.n + 1,
                                             !.before = httpResponse.status,
                                             !.route = "/health"]
    /\ UNCHANGED <<files, clientVars>>

\* data/radar.yaml is replaced, removed or damaged between two requests.
WriteDataFile(file) ==
    /\ file # files.data
    /\ files' = [files EXCEPT !.data = file]
    /\ UNCHANGED <<httpResponse, clientVars>>

Next ==
    \/ InitializeRadar
    \/ phase = "fetching" /\ \E response \in Responses : FetchSucceeds(response)
    \/ FetchFails
    \/ \E sz \in ContainerSizes : Resize(sz)
    \/ \E ms \in Delays : TimePasses(ms)
    \/ ResizeTimerFires
    \/ ToggleTheme
    \/ SystemSchemeChanges
    \/ \E ring \in StatusOptions : ClickLegend(ring)
    \/ \E quadrant \in QuadrantOptions : ClickQuadrantLabel(quadrant)
    \/ \E v \in QuadrantOptions \cup {""} : ChangeQuadrantFilter(v)
    \/ \E v \in StatusOptions \cup {""} : ChangeStatusFilter(v)
    \/ ResetFilters
    \/ \E k \in 1..MaxItems : ClickNode(k)
    \/ \E g \in 1..Len(QUADRANTS), k \in 1..MaxItems : ClickListItem(g, k)
    \/ CloseDetails
    \/ \E k \in 1..MaxItems : DragStart(k)
    \/ \E delta \in Deltas : Drag(delta)
    \/ DragEnd
    \/ \E stops \in BOOLEAN : TimerTick(stops)
    \/ GetApiRadar
    \/ GetIndex
    \/ GetHealth
    \/ \E file \in DataFiles : WriteDataFile(file)

Spec == Init /\ [][Next]_vars

(***************************************************************************)
(* The layout alone: one pass on every input of LayoutSnapshots, at every  *)
(* size of positive radius.                                                *)
(***************************************************************************)
InitLayout == InitWith(PositiveSizes, {NullStr}, {FALSE})

LayoutResponses == ResponsesOf(LayoutSnapshots)

NextLayout ==
    \/ InitializeRadar
    \/ phase = "fetching" /\ \E response \in LayoutResponses : FetchSucceeds(response)

SpecLayout == InitLayout /\ [][NextLayout]_vars

(***************************************************************************)
(* The layout passes and their triggers: load, resize, theme, filters,     *)
(* with one ring and one quadrant to filter by, and the click on the first *)
(* node.                                                                   *)
(***************************************************************************)
PassRings == {"Adopted"}
PassQuadrants == {"Tools"}

InitPasses == InitWith(ContainerSizes, {NullStr}, {FALSE})

NextPasses ==
    \/ InitializeRadar
    \/ phase = "fetching" /\ \E response \in Responses : FetchSucceeds(response)
    \/ FetchFails
    \/ \E sz \in ContainerSizes : Resize(sz)
    \/ TimePasses(resizeDebounceDelay)
    \/ ResizeTimerFires
    \/ ToggleTheme
    \/ \E ring \in PassRings : ClickLegend(ring)
    \/ \E quadrant \in PassQuadrants : ClickQuadrantLabel(quadrant)
    \/ \E v \in PassQuadrants \cup {""} : ChangeQuadrantFilter(v)
    \/ \E v \in PassRings \cup {""} : ChangeStatusFilter(v)
    \/ ResetFilters
    \/ ClickNode(1)

SpecPasses == InitPasses /\ [][NextPasses]_vars

(***************************************************************************)
(* The server alone: requests to the three routes, and changes of the data *)
(* file between them, with the template present or not.                    *)
(***************************************************************************)
InitServer ==
    /\ InitClient({<<800, 600>>}, {NullStr}, {FALSE})
    /\ files \in [template : BOOLEAN, data : DataFiles]
    /\ httpResponse = NoResponse

NextServer ==
    \/ GetApiRadar
    \/ GetIndex
    \/ GetHealth
    \/ \E file \in DataFiles : WriteDataFile(file)

SpecServer == InitServer /\ [][NextServer]_vars

(***************************************************************************)
(* Drag gestures on the nodes drawn, with the timer of the simulation, the *)
(* click on a node, and the theme toggle and a filter as triggers of       *)
(* another pass.                                                           *)
(***************************************************************************)
InitDrag == InitWith({<<800, 600>>}, {NullStr}, {FALSE})

\* Snapshots of an item that is placed and one that is not.
DragItems ==
    { [label |-> "Kubernetes", quadrant |-> "Platforms", ring |-> "Adopted"],
      [label |-> "CVS",        quadrant |-> "Tools",     ring |-> "Retired"] }

DragResponses == ResponsesOf(SeqsUpTo(DragItems, MaxItems))

NextDrag ==
    \/ InitializeRadar
    \/ phase = "fetching" /\ \E response \in DragResponses : FetchSucceeds(response)
    \/ \E k \in 1..MaxItems : DragStart(k)
    \/ \E delta \in Deltas : Drag(delta)
    \/ DragEnd
    \/ \E stops \in BOOLEAN : TimerTick(stops)
    \/ ClickNode(1)
    \/ ToggleTheme
    \/ \E ring \in PassRings : ClickLegend(ring)

SpecDrag == InitDrag /\ [][NextDrag]_vars

(***************************************************************************)
(* The theme: the preference stored before the page loads (none, one of    *)
(* THEMES, one that is not), the system colour scheme and its changes,     *)
(* the clicks on the theme button, and resizes as another source of passes.*)
(***************************************************************************)
ThemesStored == { NullStr, "system", "sepia" }

InitThemes == InitWith(PositiveSizes, ThemesStored, BOOLEAN)

NextThemes ==
    \/ InitializeRadar
    \/ phase = "fetching" /\ \E response \in DragResponses : FetchSucceeds(response)
    \/ FetchFails
    \/ \E sz \in PositiveSizes : Resize(sz)
    \/ ToggleTheme
    \/ SystemSchemeChanges

SpecThemes == InitThemes /\ [][NextThemes]_vars

(***************************************************************************)
(* The details panel: clicks on the nodes and on the entries of the list,  *)
(* the close button, and the filters that redraw both, on snapshots whose  *)
(* items differ in their labels.                                           *)
(***************************************************************************)
InitDetails == InitWith({<<800, 600>>}, {NullStr}, {FALSE})

DetailSnapshots ==
    { d \in Snapshots : \A i, j \in 1..Len(d) : d[i].label = d[j].label => i = j }

DetailResponses == ResponsesOf(DetailSnapshots)

NextDetails ==
    \/ InitializeRadar
    \/ phase = "fetching" /\ \E response \in DetailResponses : FetchSucceeds(response)
    \/ \E k \in 1..MaxItems : ClickNode(k)
    \/ \E g \in 1..Len(QUADRANTS), k \in 1..MaxItems : ClickListItem(g, k)
    \/ CloseDetails
    \/ \E ring \in PassRings : ClickLegend(ring)
    \/ \E quadrant \in PassQuadrants : ClickQuadrantLabel(quadrant)

SpecDetails == InitDetails /\ [][NextDetails]_vars

(***************************************************************************)
(* The filters: the legend, the quadrant labels, the two dropdowns and the *)
(* reset button, with two rings and two quadrants to filter by.            *)
(***************************************************************************)
FilterRings == {"Adopted", "In Discovery"}
FilterQuadrants == {"Platforms", "Tools"}

\* Items that differ in ring and quadrant, and one that is listed but not placed.
FilterItems ==
    { [label |-> "Kubernetes", quadrant |-> "Platforms", ring |-> "Adopted"],
      [label |-> "Bazel",      quadrant |-> "Tools",     ring |-> "In Discovery"],
      [label |-> "CVS",        quadrant |-> "Tools",     ring |-> "Retired"] }

FilterResponses == ResponsesOf(SeqsUpTo(FilterItems, MaxItems))

InitFilters == InitWith({<<800, 600>>}, {NullStr}, {FALSE})

NextFilters ==
    \/ InitializeRadar
    \/ phase = "fetching" /\ \E response \in FilterResponses : FetchSucceeds(response)
    \/ \E ring \in FilterRings : ClickLegend(ring)
    \/ \E quadrant \in FilterQuadrants : ClickQuadrantLabel(quadrant)
    \/ \E v \in FilterQuadrants \cup {""} : ChangeQuadrantFilter(v)
    \/ \E v \in FilterRings \cup {""} : ChangeStatusFilter(v)
    \/ ResetFilters

SpecFilters == InitFilters /\ [][NextFilters]_vars

(***************************************************************************)
(* The debounced resize: resize events before and after the load, the time *)
(* that passes between them, and the timeout that fires.  A timeout that   *)
(* is due fires, and time passes while one is pending: the steps that take *)
(* the due timeout from the pending ones are those of ResizeTimerFires.    *)
(***************************************************************************)
InitResize == InitWith({<<800, 600>>}, {NullStr}, {FALSE})

NextResize ==
    \/ InitializeRadar
    \/ phase = "fetching" /\ \E response \in DragResponses : FetchSucceeds(response)
    \/ FetchFails
    \/ \E sz \in ContainerSizes : Resize(sz)
    \/ \E ms \in Delays : TimePasses(ms)
    \/ ResizeTimerFires

SpecResize ==
    /\ InitResize
    /\ [][NextResize]_vars
    /\ WF_vars(\E ms \in Delays : TimePasses(ms))
    /\ WF_resizeTimer(TimeoutFires)

(***************************************************************************)
(* Properties of the target positions                                      *)
(***************************************************************************)
\* The latest drawRadar call reached prepareNodesForSimulation.
LaidOut == \E i \in 1..Len(passSteps) : passSteps[i] = "prepareNodesForSimulation"

\* The radius of the latest pass that drew the rings: the outermost circle.
DrawnRadius == svg.rings[1]

RingCount == Len(RINGS)

\* The band [R*(N-i-1)/N, R*(N-i)/N] of ring index i.
BandInner(R, i) == RDiv(RMul(R, Int2Rat(RingCount - i - 1)), Int2Rat(RingCount))
BandOuter(R, i) == RDiv(RMul(R, Int2Rat(RingCount - i)), Int2Rat(RingCount))

\* The slice width 2*pi/len(QUADRANTS) and the start j*w - pi/2 of slice j.
SliceWidth == Rat(2, Len(QUADRANTS))
SliceStart(j) == RSub(RMul(Int2Rat(j), SliceWidth), Rat(1, 2))

\* C1: every placed node's target radius is the arithmetic midpoint of the band
\* [R*(N-i-1)/N, R*(N-i)/N] of its ring index i, lies strictly inside that band,
\* and lies in the band of no other ring index.
C1_TargetRadiusIsBandMidpoint ==
    LaidOut =>
      \A k \in 1..Len(svg.nodes) :
        LET node == svg.nodes[k]
            i    == indexOf(RINGS, node.ring)
            R    == DrawnRadius
        IN  /\ RLt(Zero, R)
            /\ RAdd(node.targetRadius, node.targetRadius)
                 = RAdd(BandInner(R, i), BandOuter(R, i))
            /\ RLt(BandInner(R, i), node.targetRadius)
            /\ RLt(node.targetRadius, BandOuter(R, i))
            /\ node.target.r = node.targetRadius
            /\ \A j \in 0..(RingCount - 1) :
                 j # i => ~(/\ RLe(BandInner(R, j), node.targetRadius)
                            /\ RLe(node.targetRadius, BandOuter(R, j)))

\* Witness of C1: a pass placed nodes of all three rings.
C1_Witness ==
    /\ LaidOut
    /\ \A i \in 1..RingCount : \E k \in 1..Len(svg.nodes) : svg.nodes[k].ring = RINGS[i]

\* C2: the target angle of the valid item at input index k, of quadrant index j,
\* is (j*w - pi/2) + 0.1*w + (k/total)*0.8*w, which is inside the item's slice,
\* at least 0.1*w from each edge of it.
C2_TargetAngleInSlice ==
    LaidOut =>
      \A n \in 1..Len(svg.nodes) :
        LET node  == svg.nodes[n]
            k     == node.id.n
            total == Len(radarData)
            j     == indexOf(QUADRANTS, node.quadrant)
            w     == SliceWidth
            a     == node.target.a
        IN  /\ a = RAdd(RAdd(SliceStart(j), RMul(Rat(1, 10), w)),
                        RMul(Rat(k, total), RMul(Rat(8, 10), w)))
            /\ RLe(RAdd(SliceStart(j), RMul(Rat(1, 10), w)), a)
            /\ RLe(a, RSub(SliceStart(j + 1), RMul(Rat(1, 10), w)))

\* Witness of C2: the last of three items is placed (the largest offset), and so is
\* the first (the smallest).
C2_Witness ==
    /\ LaidOut
    /\ Len(radarData) = 3
    /\ \E n \in 1..Len(svg.nodes) : svg.nodes[n].id.n = 2
    /\ \E n \in 1..Len(svg.nodes) : svg.nodes[n].id.n = 0

\* C3 (as claimed): an "Adopted" item of "Platforms" has its target radius in the
\* outermost band [R*(N-1)/N, R] and its target angle in the first slice; a
\* "Not Recommended" item has its target radius in the innermost band [0, R/N]; the
\* target radius strictly increases with the ring's index in RINGS.
C3_AdoptedOutermost ==
    LaidOut =>
      LET R == DrawnRadius IN
      /\ \A k \in 1..Len(svg.nodes) :
           LET node == svg.nodes[k] IN
           /\ (node.ring = "Adopted" /\ node.quadrant = "Platforms") =>
                 /\ RLe(RDiv(RMul(R, Int2Rat(RingCount - 1)), Int2Rat(RingCount)),
                        node.targetRadius)
                 /\ RLe(node.targetRadius, R)
                 /\ RLe(SliceStart(0), node.target.a)
                 /\ RLe(node.target.a, SliceStart(1))
           /\ node.ring = "Not Recommended" =>
                 /\ RLe(Zero, node.targetRadius)
                 /\ RLe(node.targetRadius, RDiv(R, Int2Rat(RingCount)))
      /\ \A k1, k2 \in 1..Len(svg.nodes) :
           indexOf(RINGS, svg.nodes[k1].ring) < indexOf(RINGS, svg.nodes[k2].ring)
             => RLt(svg.nodes[k1].targetRadius, svg.nodes[k2].targetRadius)

\* C4: two valid items of one quadrant at input indices p < q have target angles
\* that differ by exactly ((q-p)/total)*0.8*w, whatever lies between them.
C4_OffsetByInputIndex ==
    LaidOut =>
      \A n1, n2 \in 1..Len(svg.nodes) :
        LET p == svg.nodes[n1].id.n
            q == svg.nodes[n2].id.n
        IN  (p < q /\ svg.nodes[n1].quadrant = svg.nodes[n2].quadrant) =>
               RSub(svg.nodes[n2].target.a, svg.nodes[n1].target.a)
                 = RMul(Rat(q - p, Len(radarData)), RMul(Rat(8, 10), SliceWidth))

\* Witness of C4: two placed items of one quadrant with an item of another quadrant
\* between them in the input.
C4_Witness ==
    /\ LaidOut
    /\ \E n1, n2 \in 1..Len(svg.nodes) :
         /\ svg.nodes[n1].quadrant = svg.nodes[n2].quadrant
         /\ svg.nodes[n2].id.n = svg.nodes[n1].id.n + 2
         /\ radarData[svg.nodes[n1].id.n + 2].quadrant # svg.nodes[n1].quadrant

(***************************************************************************)
(* Properties of the set of placed items                                   *)
(***************************************************************************)
RecognizedRings     == { RINGS[i] : i \in 1..Len(RINGS) }
RecognizedQuadrants == { QUADRANTS[i] : i \in 1..Len(QUADRANTS) }

Recognized(item) ==
    item.ring \in RecognizedRings /\ item.quadrant \in RecognizedQuadrants

ItemOf(node) == [label |-> node.label, quadrant |-> node.quadrant, ring |-> node.ring]

\* C5: the nodes placed by a pass are exactly the items of the input with a
\* recognized ring and quadrant, in input order, each once; no placed node has an
\* unrecognized ring or quadrant or sits at the centre, and the simulation runs on
\* the placed nodes only, each started at its target.
C5_PlacedAreTheValidItems ==
    LaidOut =>
      /\ [k \in 1..Len(svg.nodes) |-> ItemOf(svg.nodes[k])]
           = SelectSeq(radarData, Recognized)
      /\ \A k \in 1..Len(svg.nodes) :
           /\ svg.nodes[k].id.tag = "node-"
           /\ radarData[svg.nodes[k].id.n + 1] = ItemOf(svg.nodes[k])
           /\ Recognized(svg.nodes[k])
           /\ svg.nodes[k].target # Origin
      /\ \A k1, k2 \in 1..Len(svg.nodes) :
           k1 < k2 => svg.nodes[k1].id.n < svg.nodes[k2].id.n
      /\ simulation.exists = (Len(svg.nodes) > 0)
      /\ simulation.exists =>
           simulation.start = [k \in 1..Len(svg.nodes) |-> svg.nodes[k].target]

\* Witness of C5: a pass placed two items and dropped one that came before them.
C5_Witness ==
    /\ LaidOut
    /\ Len(svg.nodes) = 2
    /\ Len(radarData) = 3
    /\ ~Recognized(radarData[1])

(***************************************************************************)
(* Properties of the list view and of the passes that place nothing        *)
(***************************************************************************)
Unfiltered == activeFilters.ring = NullStr /\ activeFilters.quadrant = NullStr

\* The item is an entry of the list view, under the heading of its quadrant.
Listed(item) ==
    \E g \in 1..Len(list) :
      /\ list[g].quadrant = item.quadrant
      /\ \E m \in 1..Len(list[g].items) : list[g].items[m] = item

\* The number of entries of the list view.
RECURSIVE EntryCount(_)
EntryCount(groups) ==
    IF groups = <<>> THEN 0 ELSE Len(Head(groups).items) + EntryCount(Tail(groups))

\* The item at input index k (from 1) has a node on the radar.
Placed(k) == \E n \in 1..Len(svg.nodes) : svg.nodes[n].id = NodeId(k - 1)

C7_RetiredListedNotPlaced ==
    phase = "ready" =>
      \A k \in 1..Len(radarData) :
        (radarData[k].ring = "Retired" /\ radarData[k].quadrant \in RecognizedQuadrants)
          => /\ ~Placed(k)
             /\ \A n \in 1..Len(svg.nodes) : svg.nodes[n].ring # "Retired"
             /\ Unfiltered => Listed(radarData[k])

\* Witness of C7: a pass placed a node of a snapshot that holds a "Retired" item, and
\* the unfiltered list is drawn.
C7_Witness ==
    /\ phase = "ready" /\ Unfiltered /\ LaidOut
    /\ Len(svg.nodes) > 0
    /\ \E k \in 1..Len(radarData) :
         radarData[k].ring = "Retired" /\ radarData[k].quadrant \in RecognizedQuadrants

StepRun(step) == \E i \in 1..Len(passSteps) : passSteps[i] = step

\* C8: on an empty (or missing) item list every pass leaves the radar SVG empty,
\* runs neither setupRadarSVG nor any later step and no simulation, and shows no
\* error; on a list without a valid item no node is drawn and no simulation runs.
C8_EmptyInputNothingPlaced ==
    phase = "ready" =>
      /\ Len(radarData) = 0 =>
           /\ svg = EmptySvg(TRUE)
           /\ passSteps = <<>>
           /\ ~simulation.exists
           /\ ~errorShown
      /\ (Len(radarData) > 0 /\ SelectSeq(radarData, Recognized) = <<>>) =>
           /\ svg.nodes = <<>>
           /\ ~simulation.exists
           /\ ~StepRun("positionNodes") /\ ~StepRun("drawNodes")
           /\ ~errorShown

\* Witness of C8: the snapshot is empty and passes ran on it after the initial one
\* (a theme change and a filter change each trigger one).
C8_Witness ==
    /\ phase = "ready"
    /\ Len(radarData) = 0
    /\ currentTheme = "dark"
    /\ activeFilters.ring # NullStr

\* The latest pass ran on a non-empty list with a radius <= 0: every resize
\* schedules a redraw, so with no redraw pending the latest pass saw the size.
BadRadiusPass ==
    /\ phase = "ready"
    /\ Len(radarData) > 0
    /\ resizeTimer = <<>>
    /\ RLe(Radius(size[1], size[2]), Zero)

\* C9 (as claimed): a pass with a radius <= 0 stops before the rings, the targets and
\* the simulation, draws nothing into the radar SVG and shows no error.
C9_NothingDrawnOnBadRadius ==
    BadRadiusPass =>
      /\ passSteps = <<"setupRadarSVG">>
      /\ ~simulation.exists
      /\ ~errorShown
      /\ svg = EmptySvg(TRUE)

\* C9 (amended): a pass with a radius <= 0 stops before the rings, the targets and
\* the simulation and shows no error; of the SVG it has cleared, it has drawn the
\* empty radar group and the legend, and nothing else.
C9_BadRadiusDrawsLegendOnly ==
    BadRadiusPass =>
      /\ passSteps = <<"setupRadarSVG">>
      /\ ~simulation.exists
      /\ ~errorShown
      /\ svg = [EmptySvg(TRUE) EXCEPT !.group = TRUE, !.legend = TRUE]

\* Witness of C9: a pass ran with a radius <= 0 after one that had placed nodes at
\* the same selection (the earlier nodes are gone).
C9_Witness ==
    /\ BadRadiusPass
    /\ selectedNodeId # Null

(***************************************************************************)
(* Determinism of the layout                                               *)
(***************************************************************************)
\* What a pass on (data, R) places: each node's id, target and final position.
Placement(data, R) ==
    LET nodes == prepareNodesForSimulation(data, R)
        sim   == positionNodes(nodes, ringLabelPositions(R))
    IN  [k \in 1..Len(nodes) |->
           [id |-> nodes[k].id, target |-> nodes[k].target, pos |-> SimulatedPos(sim, k)]]

\* C10: the targets and final positions a pass draws are those of the item sequence
\* and the radius alone, whatever the theme, the filters, the selection and the
\* earlier passes: any two passes on the same sequence and radius draw the same.
C10_LayoutDeterminedByInput ==
    LaidOut =>
      [k \in 1..Len(svg.nodes) |->
         [id |-> svg.nodes[k].id, target |-> svg.nodes[k].target,
          pos |-> svg.nodes[k].transform]]
        = Placement(radarData, DrawnRadius)

\* Witness of C10: nodes drawn by a pass under a filter that does not match them
\* all, a theme and a selection that the first pass did not have.
C10_Witness ==
    /\ LaidOut
    /\ Len(svg.nodes) > 0
    /\ activeFilters.quadrant # NullStr
    /\ \E n \in 1..Len(svg.nodes) : svg.nodes[n].quadrant # activeFilters.quadrant
    /\ currentTheme = "dark"
    /\ selectedNodeId # Null

(***************************************************************************)
(* The label-avoidance force                                               *)
(***************************************************************************)
\* C12: in the first tick of a pass, where every node is at its start position,
\* each node within ringLabelExclusionRadius of a ring-label anchor receives the
\* velocity correction of avoidLabels.
C12_NearLabelNodesNudged ==
    simulation.exists =>
      \A k \in 1..Len(simulation.start) :
        (\E l \in 1..Len(simulation.labels) :
            NearLabel(simulation.start[k], simulation.labels[l]))
          => k \in simulation.nudged

(***************************************************************************)
(* Filters                                                                 *)
(***************************************************************************)
NoFilters == [ring |-> NullStr, quadrant |-> NullStr]

Served(route) == httpResponse'.n # httpResponse.n /\ httpResponse'.route = route

\* The items of a data file, in file order: the entries of Items that are maps
\* from strings.
IsItem(entry) == entry.isMap /\ entry.stringKeys

FileItems(file) ==
    IF file.Items.t = "list" THEN SelectSeq(file.Items.elems, IsItem) ELSE <<>>

\* The JSON object is the one of the entry: each key holds the entry's value where
\* the entry has a value of the key's type.
ObjectOf(object, entry) ==
    /\ entry.Label.t = "string" => object.label = entry.Label.v
    /\ entry.Quadrant.t = "string" => object.quadrant = entry.Quadrant.v
    /\ entry.Ring.t = "string" => object.ring = entry.Ring.v
    /\ entry.Moved.t = "bool" => object.moved = (entry.Moved.v = "true")
    /\ entry.Description.t = "string" => object.description = entry.Description.v
    /\ entry.Owners.t = "string" => object.owners = entry.Owners.v

\* C14: a request to /api/radar served from a data file that reads and parses is
\* answered 200 with a JSON object whose lastModified is the file's LastModified
\* string and whose items is an array (never null) of one object per item of the
\* file, in file order; the array is empty for a file with no items.
C14_SnapshotHoldsItemsArray ==
    [][(Served("/api/radar") /\ files.data.readable /\ files.data.parses) =>
         /\ httpResponse'.status = 200
         /\ httpResponse'.json.present
         /\ files.data.LastModified.t = "string"
              => httpResponse'.json.lastModified = files.data.LastModified.v
         /\ ~httpResponse'.json.items.isNil
         /\ Len(httpResponse'.json.items.elems) = Len(FileItems(files.data))
         /\ \A k \in 1..Len(FileItems(files.data)) :
              ObjectOf(httpResponse'.json.items.elems[k], FileItems(files.data)[k])]_vars

\* The data file cannot be read or cannot be parsed.
DataUnavailable == ~files.data.readable \/ ~files.data.parses

\* C15: for a data file that cannot be read or parsed loadRadarData returns an
\* AppError of code 500 with an empty RadarData, and a request to /api/radar or to /
\* served from it is answered 500 with the error message as plain text, without a
\* JSON body and without a rendered page.
C15_DataUnavailableAnswers500 ==
    [][((Served("/api/radar") \/ Served("/")) /\ DataUnavailable) =>
         /\ ~loadRadarData(files.data).err.isNil
         /\ loadRadarData(files.data).err.Code = 500
         /\ loadRadarData(files.data).data = [LastModified |-> "", Items |-> NilSlice]
         /\ httpResponse'.status = 500
         /\ httpResponse'.text =
              IF Served("/") /\ ~files.template THEN "Failed to load template"
              ELSE IF ~files.data.readable THEN "Failed to read radar data"
              ELSE "Failed to parse radar data"
         /\ ~httpResponse'.json.present
         /\ ~httpResponse'.page.present]_vars

\* Witness of C15: a request to /api/radar was served from a data file that reads
\* but does not parse, and was answered 500.
C15_Witness ==
    /\ httpResponse.n > 0
    /\ httpResponse.route = "/api/radar"
    /\ files.data.readable /\ ~files.data.parses
    /\ httpResponse.status = 500
    /\ httpResponse.text = "Failed to parse radar data"

\* The string a RadarData holds for the LastModified value of a file.
LastModifiedOf(file) ==
    IF file.LastModified.t = "string" THEN file.LastModified.v ELSE ""

\* C16: whatever was served before, a request to /api/radar or to / is answered from
\* the data file as it is at the time of the request: 200 exactly when the file
\* reads and parses (and, for /, the template loads), with the LastModified and the
\* items of that file, and 500 otherwise.
C16_AnswerFromFileAtRequest ==
    [][(Served("/api/radar") \/ Served("/")) =>
         /\ httpResponse'.status \in {200, 500}
         /\ httpResponse'.status = 200
              <=> (~DataUnavailable /\ (Served("/") => files.template))
         /\ (httpResponse'.status = 200 /\ Served("/api/radar")) =>
              /\ httpResponse'.json.lastModified = LastModifiedOf(files.data)
              /\ Len(httpResponse'.json.items.elems) = Len(FileItems(files.data))
              /\ \A k \in 1..Len(FileItems(files.data)) :
                   ObjectOf(httpResponse'.json.items.elems[k], FileItems(files.data)[k])
         /\ (httpResponse'.status = 200 /\ Served("/")) =>
              httpResponse'.page.lastModified = LastModifiedOf(files.data)]_vars

\* Witness of C16: a request answered 500 was followed by a request to /api/radar
\* answered 200 with the items of the file written in between.
C16_Witness ==
    /\ httpResponse.n >= 2
    /\ httpResponse.before = 500
    /\ httpResponse.route = "/api/radar"
    /\ httpResponse.status = 200
    /\ Len(httpResponse.json.items.elems) = 2
    /\ Len(FileItems(files.data)) = 2

(***************************************************************************)
(* Fetch failure and empty data                                            *)
(***************************************************************************)
\* C17: once the snapshot request has failed the error message is shown in place of
\* the radar and radarData is empty; once it has succeeded with zero items no error
\* message is shown and the radar SVG is there, cleared; the message is shown in no
\* other case, and no node is drawn in either.
C17_FailureToldFromEmptyData ==
    /\ phase = "failed" =>
         /\ errorShown
         /\ radarData = <<>>
         /\ ~svg.present
         /\ svg.nodes = <<>>
    /\ (phase = "ready" /\ Len(radarData) = 0) =>
         /\ ~errorShown
         /\ svg.present
         /\ svg.nodes = <<>> /\ svg.rings = <<>> /\ ~svg.legend
    /\ errorShown <=> phase = "failed"

\* Witness of C17: the request failed, and the theme and a filter were changed
\* afterwards.
C17_Witness ==
    /\ phase = "failed"
    /\ errorShown
    /\ currentTheme = "dark"
    /\ activeFilters.ring # NullStr

(***************************************************************************)
(* Drag, and the simulation after the pass                                 *)
(***************************************************************************)
\* The position the latest pass gave node j: the one after simulationTicks ticks.
PassPosition(j) ==
    [start |-> simulation.start, labels |-> simulation.labels,
     ticks |-> simulationTicks, i |-> j, by |-> <<0, 0>>]

\* C18: during a drag gesture the dragged node is drawn where the pointer holds it,
\* and every other node is, as a datum and as drawn, where the latest pass put it.
C18_DragMovesDraggedNodeOnly ==
    simulation.drag.node # 0 =>
      /\ svg.nodes[simulation.drag.node].transform
           = svg.nodes[simulation.drag.node].fx.at
      /\ \A j \in 1..Len(svg.nodes) :
           j # simulation.drag.node =>
             /\ svg.nodes[j].pos = PassPosition(j)
             /\ svg.nodes[j].transform = PassPosition(j)

\* C19: from the end of a pass to the next one the simulation has run exactly
\* simulationTicks ticks and every node is, as a datum and as drawn, where those
\* ticks put it.
C19_FrozenAfterPass ==
    simulation.exists =>
      /\ simulation.ticks = simulationTicks
      /\ \A j \in 1..Len(svg.nodes) :
           /\ svg.nodes[j].pos = PassPosition(j)
           /\ svg.nodes[j].transform = PassPosition(j)

(***************************************************************************)
(* The snapshot has no writer                                              *)
(***************************************************************************)
\* C20: radarData changes only in the step in which the fetch succeeds; no pass,
\* filter, theme, details or drag step changes it.  A step that triggers a pass
\* (here a theme or a filter change) leaves nodes that are fresh: not fixed, not
\* dragged, at the positions of that pass.
C20_SnapshotHasNoWriter ==
    [][/\ radarData' # radarData => (phase = "fetching" /\ phase' = "ready")
       /\ (currentTheme' # currentTheme \/ activeFilters' # activeFilters) =>
            /\ simulation'.drag = NoDrag
            /\ simulation'.exists => simulation'.ticks = simulationTicks
            /\ \A j \in 1..Len(svg'.nodes) :
                 /\ svg'.nodes[j].fx = NotFixed
                 /\ svg'.nodes[j].pos = SimulatedPos(simulation', j)
                 /\ ItemOf(svg'.nodes[j]) = radarData'[svg'.nodes[j].id.n + 1]]_vars

\* Witness of C20: the snapshot of two items after a drag that moved a node, ticks
\* of the timer, a selection, a theme change and a filter change.
C20_Witness ==
    /\ phase = "ready"
    /\ Len(radarData) = 2
    /\ simulation.ticks > simulationTicks
    /\ \E j \in 1..Len(svg.nodes) : svg.nodes[j].pos.by # <<0, 0>>
    /\ selectedNodeId # Null
    /\ currentTheme = "dark"
    /\ activeFilters.ring # NullStr

(***************************************************************************)
(* The SVG after a sequence of passes                                      *)
(***************************************************************************)
\* C21: after any sequence of triggers the radar SVG holds what the latest pass
\* drew and nothing else.  A pass that reached the rings drew the rings and labels
\* of its radius, the legend, and exactly one node per valid item of radarData, in
\* order; a pass that stopped before left no ring, no label and no node, and a
\* pass on an empty list nothing at all.  With no resize redraw pending the SVG is
\* the one a pass draws into an empty SVG at the container's size.
C21_SvgHoldsLatestPassOnly ==
    /\ StepRun("drawRadarStructure") =>
         /\ svg.group /\ svg.legend
         /\ svg.rings = RingCircles(DrawnRadius)
         /\ svg.ringLabels = RingLabels(DrawnRadius)
         /\ svg.quadrantLabels = QUADRANTS
         /\ [k \in 1..Len(svg.nodes) |-> ItemOf(svg.nodes[k])]
              = SelectSeq(radarData, Recognized)
         /\ \A k1, k2 \in 1..Len(svg.nodes) :
              svg.nodes[k1].id = svg.nodes[k2].id => k1 = k2
         /\ \A k \in 1..Len(svg.nodes) :
              svg.nodes[k].targetRadius
                = TargetRadius(DrawnRadius, indexOf(RINGS, svg.nodes[k].ring))
    /\ ~StepRun("drawRadarStructure") =>
         /\ svg.nodes = <<>>
         /\ svg.rings = <<>> /\ svg.ringLabels = <<>> /\ svg.quadrantLabels = <<>>
         /\ ~simulation.exists
    /\ passSteps = <<>> => ~svg.group /\ ~svg.legend
    /\ (phase = "ready" /\ resizeTimer = <<>>) =>
         svg = drawRadar(radarData, activeFilters, size, EmptySvg(TRUE)).svg

\* Witness of C21: a pass drew two nodes at the smaller size under a theme, a
\* filter and a selection that only passes before it can have brought about.
C21_Witness ==
    /\ phase = "ready" /\ resizeTimer = <<>>
    /\ size = <<600, 400>>
    /\ Len(svg.nodes) = 2
    /\ DrawnRadius = Radius(600, 400)
    /\ currentTheme = "dark"
    /\ activeFilters.ring # NullStr
    /\ selectedNodeId # Null

(***************************************************************************)
(* The theme                                                               *)
(***************************************************************************)
ThemeCycle == { THEMES[i] : i \in 1..Len(THEMES) }

\* currentTheme after one click on the theme button.
Toggled(theme) == dispatchClick(themeToggleListeners, theme)

\* What every toggle does, whatever the value it starts from: the value after it
\* is one of THEMES, the next in the order system -> light -> dark -> system, it is
\* the value stored under themePreference, the html element is dark accordingly, and
\* the radar is redrawn by one pass at the size and under the filters of the moment.
ToggleEffect ==
    /\ currentTheme' \in ThemeCycle
    /\ currentTheme = "system" => currentTheme' = "light"
    /\ currentTheme = "light" => currentTheme' = "dark"
    /\ currentTheme = "dark" => currentTheme' = "system"
    /\ themePreference' = currentTheme'
    /\ htmlDark' = (currentTheme' = "dark" \/ (currentTheme' = "system" /\ systemDark))
    /\ svg' = drawRadar(radarData, activeFilters, size, EmptySvg(svg.present)).svg
    /\ passSteps' = drawRadar(radarData, activeFilters, size, svg).steps
    /\ radarData' = radarData /\ activeFilters' = activeFilters

\* C22 (as claimed): every toggle has the effect above, and three consecutive
\* toggles return to the value they started from, whatever that value.
C22_ThreeTogglesReturnFromAnyValue ==
    [][ToggleTheme =>
         /\ ToggleEffect
         /\ Toggled(Toggled(Toggled(currentTheme))) = currentTheme]_vars

\* C22 (amended): every toggle has the effect above; three consecutive toggles
\* return to the value they started from when that value is one of THEMES, and from
\* a value that is not (an unrecognized stored preference) the first toggle leads to
\* "system" and no toggle leads back.
C22_ThreeTogglesReturnWithinCycle ==
    [][ToggleTheme =>
         /\ ToggleEffect
         /\ currentTheme \in ThemeCycle =>
              Toggled(Toggled(Toggled(currentTheme))) = currentTheme
         /\ currentTheme \notin ThemeCycle =>
              /\ currentTheme' = "system"
              /\ Toggled(Toggled(Toggled(currentTheme))) # currentTheme]_vars

\* Witness of C22: the theme is "dark", which only toggles bring about, it is the
\* stored value, and the pass of the latest toggle has drawn the radar at a size the
\* pending resize redraw has not yet drawn.
C22_Witness ==
    /\ phase = "ready"
    /\ currentTheme = "dark" /\ themePreference = "dark"
    /\ htmlDark /\ ~systemDark
    /\ resizeTimer # <<>>
    /\ Len(svg.nodes) > 0
    /\ DrawnRadius = Radius(size[1], size[2])

\* C23: a click on the theme button runs toggleTheme once, and the theme
\* advances by one step of the cycle: of the two registrations of toggleTheme on
\* the button, one listener results.
C23_OneClickOneToggle ==
    [][ToggleTheme =>
         /\ Len(themeToggleListeners) = 1
         /\ currentTheme' = NextTheme(currentTheme)
         /\ currentTheme' # currentTheme
         /\ currentTheme \in ThemeCycle =>
              /\ NextTheme(currentTheme') # currentTheme
              /\ NextTheme(NextTheme(currentTheme')) = currentTheme]_vars

\* Witness of C23: the theme is "light" after a click, stored as the preference.
C23_Witness ==
    /\ phase # "start"
    /\ currentTheme = "light" /\ themePreference = "light"
    /\ ~htmlDark /\ systemDark

\* C29: when radar.js initializes, initTheme and applyTheme give the html element
\* the dark state the inline script of index.html gives it for the same stored
\* preference and the same system colour scheme.
C29_InitThemeAgreesWithInlineScript ==
    [][InitializeRadar =>
         htmlDark' = InlineThemeDark(themePreference, systemDark)]_vars

(***************************************************************************)
(* The details panel                                                       *)
(***************************************************************************)
\* The panel is open on the technology of the label given.
Shown(label) == panel.open /\ panel.title = label

\* What a click on the technology of the label given is to do.
ClickEffect(label) ==
    IF Shown(label)
    THEN ~panel'.open
    ELSE panel'.open /\ panel'.title = label

\* C24: a click on a technology that is not the one shown, on its node or on its
\* entry of the list, opens the panel on that technology, and a click on the one
\* shown closes the panel; after every click and every close the panel is open
\* exactly when selectedNodeId holds a value other than null.
C24_PanelFollowsClicks ==
    [][/\ \A k \in 1..MaxItems :
            ClickNode(k) => ClickEffect(svg.nodes[k].label)
       /\ \A g \in 1..Len(QUADRANTS), k \in 1..MaxItems :
            ClickListItem(g, k) => ClickEffect(list[g].items[k].label)
       /\ panel'.open <=> selectedNodeId' # Null]_vars

(***************************************************************************)
(* The filter operations                                                   *)
(***************************************************************************)
\* The value a dropdown shows for a filter: the empty value for null.
Showing(filter) == IF filter = NullStr THEN "" ELSE filter

\* The two dropdowns show the filters given.
DropdownsShow(filters, shown) ==
    /\ shown.ring = Showing(filters.ring)
    /\ shown.quadrant = Showing(filters.quadrant)

\* C25: a click on the legend entry of ring r sets activeFilters.ring to r, or to
\* null when it is r already, and leaves activeFilters.quadrant as it is; a click on
\* the label of quadrant q does the same to activeFilters.quadrant and leaves
\* activeFilters.ring; resetFilters sets both to null; after each of them, and after
\* applyFilters, which takes both from the dropdowns, the dropdowns show the active
\* filters.
C25_FilterOperationsFrame ==
    [][/\ \A r \in FilterRings :
            ClickLegend(r) =>
              /\ activeFilters'.ring = IF activeFilters.ring = r THEN NullStr ELSE r
              /\ activeFilters'.quadrant = activeFilters.quadrant
              /\ DropdownsShow(activeFilters', dropdowns')
       /\ \A q \in FilterQuadrants :
            ClickQuadrantLabel(q) =>
              /\ activeFilters'.quadrant
                   = IF activeFilters.quadrant = q THEN NullStr ELSE q
              /\ activeFilters'.ring = activeFilters.ring
              /\ DropdownsShow(activeFilters', dropdowns')
       /\ ResetFilters =>
              /\ activeFilters' = [ring |-> NullStr, quadrant |-> NullStr]
              /\ dropdowns' = [ring |-> "", quadrant |-> ""]
       /\ \A v \in FilterQuadrants \cup {""} :
            ChangeQuadrantFilter(v) =>
              /\ dropdowns' = [dropdowns EXCEPT !.quadrant = v]
              /\ DropdownsShow(activeFilters', dropdowns')
       /\ \A v \in FilterRings \cup {""} :
            ChangeStatusFilter(v) =>
              /\ dropdowns' = [dropdowns EXCEPT !.ring = v]
              /\ DropdownsShow(activeFilters', dropdowns')]_vars

\* Witness of C25: both filters are active and shown by the dropdowns, on a radar
\* whose legend and quadrant labels are drawn.
C25_Witness ==
    /\ phase = "ready"
    /\ svg.legend
    /\ activeFilters = [ring |-> "In Discovery", quadrant |-> "Tools"]
    /\ dropdowns = [ring |-> "In Discovery", quadrant |-> "Tools"]

\* A step of one of the filter operations.
FilterOperation ==
    \/ \E r \in FilterRings : ClickLegend(r)
    \/ \E q \in FilterQuadrants : ClickQuadrantLabel(q)
    \/ \E v \in FilterQuadrants \cup {""} : ChangeQuadrantFilter(v)
    \/ \E v \in FilterRings \cup {""} : ChangeStatusFilter(v)
    \/ ResetFilters

\* The item satisfies every active filter; a null filter is satisfied by every item.
Matches(item) ==
    /\ activeFilters.ring # NullStr => item.ring = activeFilters.ring
    /\ activeFilters.quadrant # NullStr => item.quadrant = activeFilters.quadrant

\* The list view and the radar agree: every valid item of radarData has its node,
\* the node has opacity 1 when the item matches and 0.2 when it does not, and the
\* item is an entry of the list exactly when its node has opacity 1.
ListAndRadarAgree ==
    /\ \A k \in 1..Len(radarData) : Recognized(radarData[k]) => Placed(k)
    /\ \A n \in 1..Len(svg.nodes) :
         /\ svg.nodes[n].opacity
              = IF Matches(ItemOf(svg.nodes[n])) THEN Rat(1, 1) ELSE Rat(2, 10)
         /\ Listed(ItemOf(svg.nodes[n])) <=> svg.nodes[n].opacity = Rat(1, 1)
    /\ Unfiltered =>
         /\ \A k \in 1..Len(radarData) :
              Recognized(radarData[k]) => Listed(radarData[k])
         /\ \A n \in 1..Len(svg.nodes) : svg.nodes[n].opacity = Rat(1, 1)

ResizeEvent == \E sz \in ContainerSizes : Resize(sz)

\* C27: at most one timeout of the resize redraw is pending, and none before the
\* snapshot was fetched; a resize event after the fetch leaves one timeout, due in
\* resizeDebounceDelay ms, whatever was pending, and one before the fetch none; the
\* redraw runs when the pending timeout is due, that is resizeDebounceDelay ms
\* after the latest event, it is one pass at the size of the moment, and it leaves
\* no timeout pending; the radar is drawn by no other step after the load; and once
\* the resize events have stopped a pending timeout fires.
C27_ResizeDebounced ==
    /\ [](Len(resizeTimer) <= 1)
    /\ [](resizeTimer # <<>> => phase = "ready")
    /\ [][(ResizeEvent /\ phase = "ready") =>
            resizeTimer' = <<resizeDebounceDelay>>]_vars
    /\ [][(ResizeEvent /\ phase # "ready") =>
            resizeTimer' = <<>> /\ svg' = svg /\ passSteps' = passSteps]_vars
    /\ [][ResizeTimerFires =>
            /\ resizeTimer = <<0>>
            /\ resizeTimer' = <<>>
            /\ svg' = drawRadar(radarData, activeFilters, size, EmptySvg(TRUE)).svg
            /\ passSteps' = drawRadar(radarData, activeFilters, size, svg).steps]_vars
    /\ [][(phase = "ready" /\ (svg' # svg \/ passSteps' # passSteps)) =>
            resizeTimer = <<0>>]_vars
    /\ (<>[][~ResizeEvent]_vars) => ((resizeTimer # <<>>) ~> (resizeTimer = <<>>))

\* Witness of C27: the radar is drawn at a size the container took after the load,
\* and no timeout is pending.
C27_Witness ==
    /\ phase = "ready"
    /\ resizeTimer = <<>>
    /\ size = <<600, 400>>
    /\ Len(svg.nodes) > 0
    /\ DrawnRadius = Radius(600, 400)

(***************************************************************************)
(* The ring labels                                                         *)
(***************************************************************************)
\* C28: for every ring index i (from 0) the label drawn just inside the circle of
\* radius R*(N-i)/N reads RINGS[i]: it is on the vertical axis, ringLabelYOffset
\* below the top of that circle and inside the band of index i, and that circle is
\* the outer edge of the band in which every node of ring RINGS[i] has its target
\* radius.
C28_RingLabelInItsBand ==
    LaidOut =>
      /\ Len(svg.ringLabels) = RingCount
      /\ \A i \in 0..(RingCount - 1) :
           /\ svg.rings[i + 1] = BandOuter(DrawnRadius, i)
           /\ svg.ringLabels[i + 1].text = RINGS[i + 1]
           /\ svg.ringLabels[i + 1].x = Zero
           /\ svg.ringLabels[i + 1].y
                = RAdd(RSub(Zero, BandOuter(DrawnRadius, i)), Int2Rat(ringLabelYOffset))
           /\ RLt(BandInner(DrawnRadius, i), RSub(Zero, svg.ringLabels[i + 1].y))
           /\ RLt(RSub(Zero, svg.ringLabels[i + 1].y), BandOuter(DrawnRadius, i))
           /\ \A n \in 1..Len(svg.nodes) :
                svg.nodes[n].ring = svg.ringLabels[i + 1].text =>
                  /\ RLt(BandInner(DrawnRadius, i), svg.nodes[n].targetRadius)
                  /\ RLt(svg.nodes[n].targetRadius, BandOuter(DrawnRadius, i))
                  /\ svg.nodes[n].target.r = svg.nodes[n].targetRadius

\* Witness of C28: a pass placed a node of the first ring of RINGS and a node of
\* the last.
C28_Witness ==
    /\ LaidOut
    /\ \E n \in 1..Len(svg.nodes) : svg.nodes[n].ring = RINGS[1]
    /\ \E n \in 1..Len(svg.nodes) : svg.nodes[n].ring = RINGS[RingCount]

(***************************************************************************)
(* The shape of the data file                                              *)
(***************************************************************************)
\* The entries of Items that are YAML mappings, in file order.
IsMapping(entry) == entry.isMap

MappingEntries(file) ==
    IF file.Items.t = "list" THEN SelectSeq(file.Items.elems, IsMapping) ELSE <<>>

\* The zero value stands where the entry has no value of the field's type.
ZeroOrValue(x, type, zero, value) == IF x.t = type THEN value ELSE zero

\* C30: for every data file that is a well-formed YAML mapping loadRadarData
\* returns no error; LastModified is the file's string or "" when it is no string;
\* the items returned are, in file order, one per mapping entry of Items (entries
\* that are no mappings are skipped), each field holding the entry's value or the
\* zero value ("" or false) when it is missing or of another type.
C30_OneItemPerMappingEntry ==
    (files.data.readable /\ files.data.parses) =>
      LET result  == loadRadarData(files.data)
          entries == MappingEntries(files.data)
          items   == result.data.Items.elems
      IN  /\ result.err.isNil
          /\ result.data.LastModified
               = ZeroOrValue(files.data.LastModified, "string", "", files.data.LastModified.v)
          /\ Len(items) = Len(entries)
          /\ \A k \in 1..Len(entries) :
               k <= Len(items) =>
                 /\ items[k].label = ZeroOrValue(entries[k].Label, "string", "", entries[k].Label.v)
                 /\ items[k].quadrant
                      = ZeroOrValue(entries[k].Quadrant, "string", "", entries[k].Quadrant.v)
                 /\ items[k].ring = ZeroOrValue(entries[k].Ring, "string", "", entries[k].Ring.v)
                 /\ items[k].moved
                      = ZeroOrValue(entries[k].Moved, "bool", FALSE, entries[k].Moved.v = "true")
                 /\ items[k].description
                      = ZeroOrValue(entries[k].Description, "string", "", entries[k].Description.v)
                 /\ items[k].owners
                      = ZeroOrValue(entries[k].Owners, "string", "", entries[k].Owners.v)

====
